---- MODULE Spec2Model ----
(***************************************************************************)
(* Resume processing pipeline of src/index.js: the candidate normalizer    *)
(* (validateCandidate), the evaluator adapter (parseWithGemini), the batch *)
(* helper (processInBatches) and the run (processResumeFiles).             *)
(*                                                                         *)
(* A JavaScript string is a sequence of one-character strings.  A          *)
(* JavaScript value is a record [t, v]: t is the type tag and v the        *)
(* payload.  A number carries its value in tenths (v = 875 is 87.5), so    *)
(* that Math.round has something to round.  A JavaScript object is a       *)
(* record of JavaScript values; a key that is absent reads as undefined.   *)
(***************************************************************************)
EXTENDS Integers, Sequences, FiniteSets, TLC

\* ------------------------------------------------------------------------
\* Strings
\* ------------------------------------------------------------------------

\* the character ` (a string of the module cannot hold it)
BackTick == "backtick"

UpperChars == <<"A","B","C","D","E","F","G","H","I","J","K","L","M","N","O","P","Q","R","S","T","U","V","W","X","Y","Z">>

LowerChars == <<"a","b","c","d","e","f","g","h","i","j","k","l","m","n","o","p","q","r","s","t","u","v","w","x","y","z">>

DigitChars == <<"0","1","2","3","4","5","6","7","8","9">>

Range(s) == {s[i] : i \in DOMAIN s}

\* [A-Z]
UpperLetters ==
    {"A", "B", "C", "D", "E", "F", "G", "H", "I", "J", "K", "L", "M",
     "N", "O", "P", "Q", "R", "S", "T", "U", "V", "W", "X", "Y", "Z"}

\* [a-zA-Z]
Letters ==
    {"a", "b", "c", "d", "e", "f", "g", "h", "i", "j", "k", "l", "m",
     "n", "o", "p", "q", "r", "s", "t", "u", "v", "w", "x", "y", "z",
     "A", "B", "C", "D", "E", "F", "G", "H", "I", "J", "K", "L", "M",
     "N", "O", "P", "Q", "R", "S", "T", "U", "V", "W", "X", "Y", "Z"}

\* the characters String.prototype.trim and \s take for white space
WhiteSpace == {" ", "\t", "\n"}

toLowerChar(c) ==
    IF c \in UpperLetters
    THEN LowerChars[CHOOSE i \in DOMAIN UpperChars : UpperChars[i] = c]
    ELSE c

toLowerCase(s) == [i \in 1..Len(s) |-> toLowerChar(s[i])]

RECURSIVE trimStart(_)
trimStart(s) ==
    IF s # <<>> /\ Head(s) \in WhiteSpace THEN trimStart(Tail(s)) ELSE s

RECURSIVE trimEnd(_)
trimEnd(s) ==
    IF s # <<>> /\ s[Len(s)] \in WhiteSpace
    THEN trimEnd(SubSeq(s, 1, Len(s) - 1))
    ELSE s

trim(s) == trimEnd(trimStart(s))

\* s.replace(/\s+/g, "")
removeWhiteSpace(s) == SelectSeq(s, LAMBDA c : c \notin WhiteSpace)

\* s.substring(0, n)
substring0(s, n) == SubSeq(s, 1, IF n < Len(s) THEN n ELSE Len(s))

startsWith(s, p) == Len(s) >= Len(p) /\ SubSeq(s, 1, Len(p)) = p

\* s.includes(p)
includes(s, p) ==
    \E i \in 1..(Len(s) - Len(p) + 1) : SubSeq(s, i, i + Len(p) - 1) = p

SetMin(S) == CHOOSE x \in S : \A y \in S : x <= y

SetMax(S) == CHOOSE x \in S : \A y \in S : x >= y

\* ------------------------------------------------------------------------
\* JavaScript values
\* ------------------------------------------------------------------------

STR(s) == [t |-> "str", v |-> s]

\* a number, given in tenths
NUM(tenths) == [t |-> "num", v |-> tenths]

INT(n) == NUM(n * 10)

BOOL(b) == [t |-> "bool", v |-> b]

ARR(a) == [t |-> "arr", v |-> a]

UNDEF == [t |-> "undef", v |-> 0]

NULL == [t |-> "null", v |-> 0]

IsStr(x) == x.t = "str"

IsNum(x) == x.t = "num"

\* ToBoolean
Truthy(x) ==
    CASE x.t = "str" -> x.v # <<>>
      [] x.t = "num" -> x.v # 0
      [] x.t = "bool" -> x.v
      [] x.t = "arr" -> TRUE
      [] OTHER -> FALSE

\* a || b
Or(a, b) == IF Truthy(a) THEN a ELSE b

\* obj.key
Get(obj, key) == IF key \in DOMAIN obj THEN obj[key] ELSE UNDEF

\* Math.round of a number in tenths, as an integer (halves round up)
MathRound(tenths) == (tenths + 5) \div 10

\* uuidv4(): the n-th identifier drawn in the process, two hexadecimal
\* digits and the version nibble
HexChars == <<"0","1","2","3","4","5","6","7","8","9","a","b","c","d","e","f">>

uuidv4(n) == <<HexChars[((n \div 16) % 16) + 1], HexChars[(n % 16) + 1], "-", "4">>

\* ------------------------------------------------------------------------
\* validateCandidate and extractEmailFromText
\* ------------------------------------------------------------------------

\* [a-zA-Z0-9._%+-]
LocalChars ==
    {"a", "b", "c", "d", "e", "f", "g", "h", "i", "j", "k", "l", "m",
     "n", "o", "p", "q", "r", "s", "t", "u", "v", "w", "x", "y", "z",
     "A", "B", "C", "D", "E", "F", "G", "H", "I", "J", "K", "L", "M",
     "N", "O", "P", "Q", "R", "S", "T", "U", "V", "W", "X", "Y", "Z",
     "0", "1", "2", "3", "4", "5", "6", "7", "8", "9", ".", "_", "%",
     "+", "-"}

\* [a-zA-Z0-9.-]
DomainChars ==
    {"a", "b", "c", "d", "e", "f", "g", "h", "i", "j", "k", "l", "m",
     "n", "o", "p", "q", "r", "s", "t", "u", "v", "w", "x", "y", "z",
     "A", "B", "C", "D", "E", "F", "G", "H", "I", "J", "K", "L", "M",
     "N", "O", "P", "Q", "R", "S", "T", "U", "V", "W", "X", "Y", "Z",
     "0", "1", "2", "3", "4", "5", "6", "7", "8", "9", ".", "-"}

\* /^[A-Z0-9._%+-]+@[A-Z0-9.-]+\.[A-Z]{2,}$/i .test(s)
emailRegexTest(s) ==
    \E i \in 2..Len(s) :
        /\ s[i] = "@"
        /\ \A k \in 1..(i - 1) : s[k] \in LocalChars
        /\ \E j \in (i + 2)..(Len(s) - 2) :
              /\ s[j] = "."
              /\ \A k \in (i + 1)..(j - 1) : s[k] \in DomainChars
              /\ \A k \in (j + 1)..Len(s) : s[k] \in Letters

\* the last index of the longest run of characters of C that starts at p
\* (p - 1 when s[p] is not in C)
RunEnd(s, p, C) ==
    LET stop == {q \in p..Len(s) : s[q] \notin C}
    IN  IF stop = {} THEN Len(s) ELSE SetMin(stop) - 1

\* the first index of the longest run of characters of C that ends at q
\* (q + 1 when s[q] is not in C)
RunStart(s, q, C) ==
    LET stop == {p \in 1..q : s[p] \notin C}
    IN  IF stop = {} THEN 1 ELSE SetMax(stop) + 1

\* Where the match of /[a-zA-Z0-9._%+-]+@[a-zA-Z0-9.-]+\.[a-zA-Z]{2,}/
\* whose '@' is at index at ends; 0 when there is none.  The greedy domain
\* gives back down to the last '.' that two letters follow, and the greedy
\* top-level part takes every letter.
matchEnd(s, at) ==
    LET e == RunEnd(s, at + 1, DomainChars)
        dots == {j \in (at + 2)..e :
                    /\ s[j] = "."
                    /\ j + 2 <= Len(s)
                    /\ s[j + 1] \in Letters
                    /\ s[j + 2] \in Letters}
    IN  IF at > 1 /\ s[at - 1] \in LocalChars /\ dots # {}
        THEN RunEnd(s, SetMax(dots) + 1, Letters)
        ELSE 0

\* The '@' of each address in text.  A match starts where the run of
\* local-part characters before its '@' starts, so the first match is the
\* one of the first such '@'.
emailMatches(text) == {at \in 1..Len(text) : text[at] = "@" /\ matchEnd(text, at) > 0}

extractEmailFromText(text) ==
    LET ats == emailMatches(text)
    IN  IF ats = {}
        THEN NULL
        ELSE LET at == SetMin(ats)
             IN  STR(toLowerCase(SubSeq(text, RunStart(text, at - 1, LocalChars),
                                        matchEnd(text, at))))

\* the test the normalizer applies to name, phone, location, jobTitle and
\* education: a non-blank string other than 'n/a' in any letter case
usableText(x) ==
    /\ Truthy(x)
    /\ IsStr(x)
    /\ trim(x.v) # <<>>
    /\ toLowerCase(trim(x.v)) # <<"n","/","a">>

textOr(x, dflt) == IF usableText(x) THEN STR(trim(x.v)) ELSE STR(dflt)

emailInput(candidateData) ==
    LET e == Get(candidateData, "email")
    IN  IF Truthy(e) /\ IsStr(e) THEN toLowerCase(trim(e.v)) ELSE <<>>

\* n is the number of identifiers uuidv4 has handed out so far
fallbackEmailFromName(candidateData, n) ==
    LET name == Get(candidateData, "name")
    IN  IF usableText(name)
        THEN toLowerCase(removeWhiteSpace(trim(name.v))) \o <<"@","g","m","a","i","l",".","c","o","m">>
        ELSE <<"u","n","k","n","o","w","n","_">> \o uuidv4(n) \o <<"@","g","m","a","i","l",".","c","o","m">>

\* how many identifiers validateCandidate draws for candidateData: one for
\* the fallback email of an unusable name, one for a missing id
uuidsDrawn(candidateData) ==
    (IF usableText(Get(candidateData, "name")) THEN 0 ELSE 1)
    + (IF Truthy(Get(candidateData, "id")) THEN 0 ELSE 1)

\* Math.round(candidateData.score) without Math.max(0, Math.min(100, ...))
roundScore(x) == IF IsNum(x) THEN INT(MathRound(x.v)) ELSE INT(0)

\* Math.max(0, Math.min(100, Math.round(candidateData.score))), 0 when the
\* score is no number
clampScore(x) ==
    IF IsNum(x)
    THEN LET r == MathRound(x.v)
         IN  INT(IF r > 100 THEN 100 ELSE IF r < 0 THEN 0 ELSE r)
    ELSE INT(0)

cleanSkills(x) ==
    IF x.t = "arr"
    THEN LET kept == SelectSeq(x.v, LAMBDA s : IsStr(s) /\ trim(s.v) # <<>>)
         IN  ARR([i \in 1..Len(kept) |-> STR(trim(kept[i].v))])
    ELSE ARR(<<>>)

\* a normalizer that reads the years under the key of the record
experienceOfRecordKey(candidateData) ==
    LET y == Get(candidateData, "experience")
    IN  IF IsNum(y) /\ y.v >= 0 THEN INT(MathRound(y.v)) ELSE INT(0)

experienceOf(candidateData) ==
    LET y == Get(candidateData, "experienceYears")
    IN  IF IsNum(y) /\ y.v >= 0 THEN INT(MathRound(y.v)) ELSE INT(0)

validateCandidate(candidateData, n) ==
    LET nameDraws == IF usableText(Get(candidateData, "name")) THEN 0 ELSE 1
        input == emailInput(candidateData)
        email == IF input # <<>> /\ emailRegexTest(input)
                 THEN input
                 ELSE fallbackEmailFromName(candidateData, n)
        summary == Get(candidateData, "parsedText")
        approved == Get(candidateData, "approved")
    IN  [id |-> Or(Get(candidateData, "id"), STR(uuidv4(n + nameDraws))),
         name |-> textOr(Get(candidateData, "name"), <<"U","n","k","n","o","w","n">>),
         email |-> STR(email),
         phone |-> textOr(Get(candidateData, "phone"), <<"N","/","A">>),
         location |-> textOr(Get(candidateData, "location"), <<"N","/","A">>),
         score |-> clampScore(Get(candidateData, "score")),
         parsedText |-> IF Truthy(summary) /\ IsStr(summary) /\ trim(summary.v) # <<>>
                        THEN STR(trim(summary.v))
                        ELSE STR(<<"N","o"," ","s","u","m","m","a","r","y"," ","p","r","o","v","i","d","e","d",".">>),
         skills |-> cleanSkills(Get(candidateData, "skills")),
         experience |-> experienceOf(candidateData),
         jobTitle |-> textOr(Get(candidateData, "jobTitle"), <<"N","/","A">>),
         education |-> textOr(Get(candidateData, "education"), <<"N","/","A">>),
         approved |-> IF approved.t = "bool" THEN approved ELSE BOOL(FALSE),
         resumeUrl |-> Or(Get(candidateData, "resumeUrl"), STR(<<"N","/","A">>))]

\* ------------------------------------------------------------------------
\* cleanGeminiJson, JSON.parse and parseWithGemini
\* ------------------------------------------------------------------------

\* s.indexOf(p, from), with JavaScript's indices (the first character is 0)
indexOf(s, p, from) ==
    LET at == {i \in from..(Len(s) - Len(p)) : SubSeq(s, i + 1, i + Len(p)) = p}
    IN  IF at = {} THEN -1 ELSE SetMin(at)

lastIndexOf(s, p) ==
    LET at == {i \in 0..(Len(s) - Len(p)) : SubSeq(s, i + 1, i + Len(p)) = p}
    IN  IF at = {} THEN -1 ELSE SetMax(at)

\* s.substring(a, b)
substring(s, a, b) == SubSeq(s, a + 1, b)

stripFence(cleaned, fence) ==
    LET codeBlockEnd == indexOf(cleaned, <<BackTick,BackTick,BackTick>>, Len(fence))
    IN  IF codeBlockEnd # -1
        THEN trim(substring(cleaned, Len(fence), codeBlockEnd))
        ELSE trim(substring(cleaned, Len(fence), Len(cleaned)))

isolateObject(cleaned) ==
    LET jsonStart == indexOf(cleaned, <<"{">>, 0)
        jsonEnd == lastIndexOf(cleaned, <<"}">>)
    IN  IF jsonStart # -1 /\ jsonEnd # -1 /\ jsonEnd > jsonStart
        THEN substring(cleaned, jsonStart, jsonEnd + 1)
        ELSE cleaned

cleanGeminiJson(raw) ==
    LET cleaned == trim(raw)
    IN  isolateObject(
            IF startsWith(cleaned, <<BackTick,BackTick,BackTick,"j","s","o","n">>) THEN stripFence(cleaned, <<BackTick,BackTick,BackTick,"j","s","o","n">>)
            ELSE IF startsWith(cleaned, <<BackTick,BackTick,BackTick>>) THEN stripFence(cleaned, <<BackTick,BackTick,BackTick>>)
            ELSE cleaned)

\* The JSON documents the evaluator is taken to reply with, each with the
\* value JSON.parse gives for it; JSON.parse throws a SyntaxError on every
\* other text.
DocPlain == <<"{","\"","n","a","m","e","\"",":","\"","J","o"," ","L","i","\"",",","\"","e","m","a","i","l","\"",":","\"","j","o","@","c","o","r","p",".","i","o","\"",",","\"","p","h","o","n","e","\"",":","\"","5","5","5","\"",",","\"","l","o","c","a","t","i","o","n","\"",":","\"","P","u","n","e","\"",",","\"","s","c","o","r","e","\"",":","5","0",",","\"","p","a","r","s","e","d","T","e","x","t","\"",":","\"","G","o","o","d"," ","f","i","t",".","\"",",","\"","s","k","i","l","l","s","\"",":","[","\"","j","s","\"","]",",","\"","e","x","p","e","r","i","e","n","c","e","Y","e","a","r","s","\"",":","3",",","\"","j","o","b","T","i","t","l","e","\"",":","\"","D","e","v","\"",",","\"","e","d","u","c","a","t","i","o","n","\"",":","\"","B","S","c","\"","}">>

DocStrong == <<"{","\"","n","a","m","e","\"",":","\"","A","l"," ","R","o","e","\"",",","\"","e","m","a","i","l","\"",":","\"","a","l","@","c","o","r","p",".","i","o","\"",",","\"","s","c","o","r","e","\"",":","8","7",",","\"","p","a","r","s","e","d","T","e","x","t","\"",":","\"","S","t","r","o","n","g",".","\"",",","\"","s","k","i","l","l","s","\"",":","[","\"","g","o","\"",",","\"","s","q","l","\"","]",",","\"","e","x","p","e","r","i","e","n","c","e","Y","e","a","r","s","\"",":","7","}">>

DocFraction == <<"{","\"","n","a","m","e","\"",":","\""," ","B","e","a"," ","\"",",","\"","s","c","o","r","e","\"",":","2","9",".","5",",","\"","s","k","i","l","l","s","\"",":","[","\"","c","\"",",","\""," ","\"",",","4","]",",","\"","e","x","p","e","r","i","e","n","c","e","Y","e","a","r","s","\"",":","2",".","5","}">>

DocOverflow == <<"{","\"","n","a","m","e","\"",":","\"","C","y","\"",",","\"","s","c","o","r","e","\"",":","1","5","0",",","\"","e","x","p","e","r","i","e","n","c","e","Y","e","a","r","s","\"",":","-","1","}">>

DocNegative == <<"{","\"","n","a","m","e","\"",":","\"","n","/","a","\"",",","\"","e","m","a","i","l","\"",":","\"","D","E","E","@","X",".","O","R","G","\"",",","\"","s","c","o","r","e","\"",":","-","5","}">>

DocLabel == <<"{","\"","n","a","m","e","\"",":","\"","P","a","r","s","i","n","g"," ","F","a","i","l","e","d","\"",",","\"","s","c","o","r","e","\"",":","7","0","}">>

DocQuoted == <<"{","\"","n","a","m","e","\"",":","\"","D","i"," ","F","u","\"",",","\"","p","a","r","s","e","d","T","e","x","t","\"",":","\"","W","r","i","t","e","s"," ",BackTick,BackTick,BackTick,"s","q","l",BackTick,BackTick,BackTick," ","d","a","i","l","y",".","\"",",","\"","s","c","o","r","e","\"",":","6","0","}">>

DocUntidy == <<"{","\"","n","a","m","e","\"",":","\""," ","B","e","a"," ","\"",",","\"","s","c","o","r","e","\"",":","3","0",",","\"","s","k","i","l","l","s","\"",":","[","\"","c","\"",",","\""," ","\"",",","4","]",",","\"","e","x","p","e","r","i","e","n","c","e","Y","e","a","r","s","\"",":","2",".","5","}">>

DocArray == <<"[","]">>

DocTextScore == <<"{","\"","s","c","o","r","e","\"",":","\"","h","i","g","h","\"","}">>

DocNull == <<"n","u","l","l">>

JsonDocs ==
    <<[text |-> DocPlain,
       value |-> [name |-> STR(<<"J","o"," ","L","i">>), email |-> STR(<<"j","o","@","c","o","r","p",".","i","o">>),
                  phone |-> STR(<<"5","5","5">>), location |-> STR(<<"P","u","n","e">>),
                  score |-> INT(50), parsedText |-> STR(<<"G","o","o","d"," ","f","i","t",".">>),
                  skills |-> ARR(<<STR(<<"j","s">>)>>), experienceYears |-> INT(3),
                  jobTitle |-> STR(<<"D","e","v">>), education |-> STR(<<"B","S","c">>)]],
      [text |-> DocStrong,
       value |-> [name |-> STR(<<"A","l"," ","R","o","e">>), email |-> STR(<<"a","l","@","c","o","r","p",".","i","o">>),
                  score |-> INT(87), parsedText |-> STR(<<"S","t","r","o","n","g",".">>),
                  skills |-> ARR(<<STR(<<"g","o">>), STR(<<"s","q","l">>)>>),
                  experienceYears |-> INT(7)]],
      [text |-> DocFraction,
       value |-> [name |-> STR(<<" ","B","e","a"," ">>), score |-> NUM(295),
                  skills |-> ARR(<<STR(<<"c">>), STR(<<" ">>), INT(4)>>),
                  experienceYears |-> NUM(25)]],
      [text |-> DocOverflow,
       value |-> [name |-> STR(<<"C","y">>), score |-> INT(150),
                  experienceYears |-> INT(-1)]],
      [text |-> DocNegative,
       value |-> [name |-> STR(<<"n","/","a">>), email |-> STR(<<"D","E","E","@","X",".","O","R","G">>),
                  score |-> INT(-5)]],
      [text |-> DocLabel,
       value |-> [name |-> STR(<<"P","a","r","s","i","n","g"," ","F","a","i","l","e","d">>), score |-> INT(70)]],
      [text |-> DocQuoted,
       value |-> [name |-> STR(<<"D","i"," ","F","u">>),
                  parsedText |-> STR(<<"W","r","i","t","e","s"," ",BackTick,BackTick,BackTick,"s","q","l",BackTick,BackTick,BackTick," ","d","a","i","l","y",".">>), score |-> INT(60)]],
      [text |-> DocUntidy,
       value |-> [name |-> STR(<<" ","B","e","a"," ">>), score |-> INT(30),
                  skills |-> ARR(<<STR(<<"c">>), STR(<<" ">>), INT(4)>>),
                  experienceYears |-> NUM(25)]],
      [text |-> DocArray, value |-> ARR(<<>>)],
      [text |-> DocTextScore,
       value |-> [score |-> STR(<<"h","i","g","h">>)]],
      [text |-> DocNull, value |-> NULL]>>

\* the message of the SyntaxError JSON.parse throws
SyntaxErrorMessage == <<"U","n","e","x","p","e","c","t","e","d"," ","t","o","k","e","n">>

\* the message of the TypeError a property read of null throws
NullReadMessage == <<"C","a","n","n","o","t"," ","r","e","a","d"," ","p","r","o","p","e","r","t","i","e","s"," ","o","f"," ","n","u","l","l">>

JSONparse(s) ==
    IF \E i \in DOMAIN JsonDocs : JsonDocs[i].text = s
    THEN [ok |-> TRUE,
          value |-> JsonDocs[CHOOSE i \in DOMAIN JsonDocs : JsonDocs[i].text = s].value,
          message |-> <<>>]
    ELSE [ok |-> FALSE, value |-> NULL, message |-> SyntaxErrorMessage]

\* the length of the prompt template without its three interpolations
PromptTemplateLength == 3191

ContextWindowTokens == 1000000

SAFETY_MARGIN_TOKENS == 5000

CharsPerToken == 3

\* Math.ceil(n / 4)
approxPromptTokens(text, jobDescription, recruiterSuggestion) ==
    LET promptLength == PromptTemplateLength + Len(jobDescription)
                        + Len(recruiterSuggestion) + Len(text)
    IN  (promptLength + Len(jobDescription) + Len(recruiterSuggestion) + 3) \div 4

MAX_TEXT_CHARS(text, jobDescription, recruiterSuggestion) ==
    (ContextWindowTokens - approxPromptTokens(text, jobDescription, recruiterSuggestion)
     - SAFETY_MARGIN_TOKENS) * CharsPerToken

\* a truncation that keeps the end of the text
textForGeminiTail(text, jobDescription, recruiterSuggestion) ==
    LET limit == MAX_TEXT_CHARS(text, jobDescription, recruiterSuggestion)
    IN  IF Len(text) > limit
        THEN SubSeq(text, Len(text) - (IF limit > 0 THEN limit ELSE 0) + 1, Len(text))
        ELSE text

textForGemini(text, jobDescription, recruiterSuggestion) ==
    IF Len(text) > MAX_TEXT_CHARS(text, jobDescription, recruiterSuggestion)
    THEN substring0(text, MAX_TEXT_CHARS(text, jobDescription, recruiterSuggestion))
    ELSE text

\* the ten keys of a payload parseWithGemini returns for a failure
failurePayload(name, email, parsedText, jobTitle) ==
    [name |-> STR(name), email |-> STR(email), phone |-> STR(<<"N","/","A">>),
     location |-> STR(<<"N","/","A">>), score |-> INT(0), parsedText |-> STR(parsedText),
     skills |-> ARR(<<>>), experienceYears |-> INT(0), jobTitle |-> STR(jobTitle),
     education |-> STR(<<"N","/","A">>)]

\* extractedEmail || `<prefix>_${uuidv4()}@example.com`
emailOrGenerated(extractedEmail, prefix, n) ==
    IF Truthy(extractedEmail)
    THEN extractedEmail.v
    ELSE prefix \o <<"_">> \o uuidv4(n) \o <<"@","e","x","a","m","p","l","e",".","c","o","m">>

\* a payload that prefers the address the evaluator reports
successPayloadReplyFirst(parsed, extractedEmail) ==
    [name |-> Or(Get(parsed, "name"), STR(<<"N","/","A">>)),
     email |-> Or(Get(parsed, "email"), Or(extractedEmail, STR(<<"N","/","A">>))),
     phone |-> Or(Get(parsed, "phone"), STR(<<"N","/","A">>)),
     location |-> Or(Get(parsed, "location"), STR(<<"N","/","A">>)),
     score |-> Or(Get(parsed, "score"), INT(0)),
     parsedText |-> Or(Get(parsed, "parsedText"), STR(<<"N","o"," ","s","u","m","m","a","r","y"," ","p","r","o","v","i","d","e","d",".">>)),
     skills |-> Or(Get(parsed, "skills"), ARR(<<>>)),
     experienceYears |-> Or(Get(parsed, "experienceYears"), INT(0)),
     jobTitle |-> Or(Get(parsed, "jobTitle"), STR(<<"N","/","A">>)),
     education |-> Or(Get(parsed, "education"), STR(<<"N","/","A">>))]

successPayload(parsed, extractedEmail) ==
    [name |-> Or(Get(parsed, "name"), STR(<<"N","/","A">>)),
     email |-> Or(extractedEmail, Or(Get(parsed, "email"), STR(<<"N","/","A">>))),
     phone |-> Or(Get(parsed, "phone"), STR(<<"N","/","A">>)),
     location |-> Or(Get(parsed, "location"), STR(<<"N","/","A">>)),
     score |-> Or(Get(parsed, "score"), INT(0)),
     parsedText |-> Or(Get(parsed, "parsedText"), STR(<<"N","o"," ","s","u","m","m","a","r","y"," ","p","r","o","v","i","d","e","d",".">>)),
     skills |-> Or(Get(parsed, "skills"), ARR(<<>>)),
     experienceYears |-> Or(Get(parsed, "experienceYears"), INT(0)),
     jobTitle |-> Or(Get(parsed, "jobTitle"), STR(<<"N","/","A">>)),
     education |-> Or(Get(parsed, "education"), STR(<<"N","/","A">>))]

Returned(payload, draws) ==
    [kind |-> "return", payload |-> payload, message |-> <<>>, draws |-> draws]

Thrown(message) ==
    [kind |-> "throw", payload |-> <<>>, message |-> message, draws |-> 0]

drawsFor(extractedEmail) == IF Truthy(extractedEmail) THEN 0 ELSE 1

\* the inner try of parseWithGemini: JSON.parse(cleaned) and the payload
\* built from it; the inner catch takes the SyntaxError of JSON.parse and
\* the TypeError of reading a property of null alike
parseReply(cleaned, extractedEmail, n) ==
    LET parsed == JSONparse(cleaned)
        message == IF parsed.ok THEN NullReadMessage ELSE parsed.message
    IN  IF parsed.ok /\ parsed.value # NULL
        THEN Returned(successPayload(parsed.value, extractedEmail), 0)
        ELSE Returned(
                 failurePayload(
                     <<"J","S","O","N"," ","P","a","r","s","e"," ","F","a","i","l","e","d">>,
                     emailOrGenerated(extractedEmail, <<"j","s","o","n","_","p","a","r","s","e","_","f","a","i","l","e","d">>, n),
                     <<"F","a","i","l","e","d"," ","t","o"," ","p","a","r","s","e"," ","G","e","m","i","n","i"," ","o","u","t","p","u","t"," ","a","s"," ","J","S","O","N",":"," ">> \o message
                         \o <<"."," ","R","a","w"," ","(","p","a","r","t","i","a","l",")",":"," ">> \o substring0(cleaned, 200) \o <<".",".",".">>,
                     <<"J","S","O","N"," ","P","a","r","s","e"," ","F","a","i","l","e","d">>),
                 drawsFor(extractedEmail))

\* the catch block of parseWithGemini.  extractedEmail is a const of the try
\* block and is not in scope here: each of the two payloads reads it, and
\* the read throws a ReferenceError out of parseWithGemini.
geminiCatch(errorMessage) ==
    IF includes(errorMessage, <<"s","a","f","e","t","y"," ","r","a","t","i","n","g","s">>)
    THEN Thrown(<<"e","x","t","r","a","c","t","e","d","E","m","a","i","l"," ","i","s"," ","n","o","t"," ","d","e","f","i","n","e","d">>)
    ELSE Thrown(<<"e","x","t","r","a","c","t","e","d","E","m","a","i","l"," ","i","s"," ","n","o","t"," ","d","e","f","i","n","e","d">>)

\* An outcome of model.generateContent(promptWithText) and of
\* result.response.text(): [k |-> "throws", s |-> the error's message],
\* [k |-> "shape", s |-> <<>>] for a result without a response whose text is
\* a function, [k |-> "text", s |-> the text of the reply].
\* key: the API key is set; n: the identifiers handed out so far.
parseWithGemini(text, jobDescription, recruiterSuggestion, key, outcome, n) ==
    IF ~key
    THEN Returned(
             failurePayload(<<"A","P","I"," ","K","e","y"," ","M","i","s","s","i","n","g">>,
                            <<"a","p","i","_","k","e","y","_","m","i","s","s","i","n","g","_">> \o uuidv4(n) \o <<"@","e","x","a","m","p","l","e",".","c","o","m">>,
                            <<"G","e","m","i","n","i"," ","A","P","I"," ","K","e","y"," ","i","s"," ","n","o","t"," ","c","o","n","f","i","g","u","r","e","d","."," ","P","a","r","s","i","n","g"," ","s","k","i","p","p","e","d",".">>,
                            <<"A","P","I"," ","K","e","y"," ","M","i","s","s","i","n","g">>),
             1)
    ELSE LET extractedEmail == extractEmailFromText(text)
             cleaned == cleanGeminiJson(outcome.s)
         IN  CASE outcome.k = "throws" -> geminiCatch(outcome.s)
               [] outcome.k = "shape" ->
                    Returned(
                        failurePayload(
                            <<"A","P","I"," ","N","o"," ","R","e","s","p","o","n","s","e">>,
                            emailOrGenerated(extractedEmail, <<"a","p","i","_","n","o","_","r","e","s","p","o","n","s","e">>, n),
                            <<"G","e","m","i","n","i"," ","A","P","I"," ","r","e","t","u","r","n","e","d"," ","n","o"," ","r","e","s","p","o","n","s","e"," ","o","r"," ","m","a","l","f","o","r","m","e","d"," ","r","e","s","p","o","n","s","e",".">>,
                            <<"A","P","I"," ","E","r","r","o","r">>),
                        drawsFor(extractedEmail))
               [] outcome.k = "text" /\ (outcome.s = <<>> \/ trim(cleaned) = <<>>) ->
                    Returned(
                        failurePayload(
                            <<"E","m","p","t","y"," ","A","I"," ","R","e","s","p","o","n","s","e">>,
                            emailOrGenerated(extractedEmail, <<"e","m","p","t","y","_","a","i","_","r","e","s","p","o","n","s","e">>, n),
                            <<"G","e","m","i","n","i"," ","r","e","t","u","r","n","e","d"," ","e","m","p","t","y"," ","c","o","n","t","e","n","t",".">>,
                            <<"E","m","p","t","y"," ","R","e","s","p","o","n","s","e">>),
                        drawsFor(extractedEmail))
               [] OTHER -> parseReply(cleaned, extractedEmail, n)

\* ------------------------------------------------------------------------
\* extractTextFromPdf, uploadToFirebaseStorage, saveCandidateToRealtimeDatabase
\* ------------------------------------------------------------------------

RECURSIVE joinChunks(_)
\* extractedText += textContent + ' ' for every text chunk of every page.
\* decodeURIComponent(T.replace(/%/g, '%25')) gives T back: once every '%'
\* is written '%25' the only escapes left to decode are those.
joinChunks(chunks) ==
    IF chunks = <<>> THEN <<>> ELSE Head(chunks) \o <<" ">> \o joinChunks(Tail(chunks))

\* An outcome of pdfParser.loadPDF(filePath):
\* [k |-> "dataReady", chunks |-> the text chunks of the pages, s |-> <<>>] or
\* [k |-> "dataError", chunks |-> <<>>, s |-> the message of parserError]
extractTextFromPdf(filePath, filename, outcome) ==
    IF outcome.k = "dataError"
    THEN IF includes(outcome.s, <<"I","n","v","a","l","i","d"," ","P","D","F"," ","s","t","r","u","c","t","u","r","e">>)
            \/ includes(outcome.s, <<"P","r","e","m","a","t","u","r","e"," ","e","n","d"," ","o","f"," ","f","i","l","e">>)
         THEN Thrown(<<"I","n","v","a","l","i","d"," ","o","r"," ","c","o","r","r","u","p","t","e","d"," ","P","D","F"," ","f","i","l","e",":"," ">> \o filename)
         ELSE Thrown(outcome.s)
    ELSE [kind |-> "return", payload |-> trim(joinChunks(outcome.chunks)),
          message |-> <<>>, draws |-> 0]

\* [a-zA-Z0-9.\-_]
FileNameChars ==
    {"a", "b", "c", "d", "e", "f", "g", "h", "i", "j", "k", "l", "m",
     "n", "o", "p", "q", "r", "s", "t", "u", "v", "w", "x", "y", "z",
     "A", "B", "C", "D", "E", "F", "G", "H", "I", "J", "K", "L", "M",
     "N", "O", "P", "Q", "R", "S", "T", "U", "V", "W", "X", "Y", "Z",
     "0", "1", "2", "3", "4", "5", "6", "7", "8", "9", ".", "-", "_"}

\* filename.replace(/[^a-zA-Z0-9.\-_]/g, '_')
sanitizeFileName(filename) ==
    [k \in 1..Len(filename) |-> IF filename[k] \in FileNameChars THEN filename[k] ELSE "_"]

\* bucket.name and Date.now(), as the text they print
BucketName == <<"t","a","l","e","n","t",".","a","p","p","s","p","o","t",".","c","o","m">>

NowText == <<"1","7","0","0","0","0","0","0","0","0","0","0","0">>

\* encodeURIComponent of a storage path: of the characters such a path is
\* made of only '/' is escaped
encodeURIComponent(s) ==
    IF s = <<>> THEN <<>>
    ELSE LET n == Len(s)
             enc(c) == IF c = "/" THEN <<"%","2","F">> ELSE <<c>>
             RECURSIVE go(_)
             go(k) == IF k > n THEN <<>> ELSE enc(s[k]) \o go(k + 1)
         IN  go(1)

\* ok: the pipe to the storage stream finished; otherwise it raised an
\* error with the message errorMessage
\* an upload that logs its error and returns the URL all the same
uploadSwallowsError(filePath, filename, candidateId, ok, errorMessage) ==
    LET originalFileName == IF filename # <<>> THEN filename
                            ELSE <<"r","e","s","u","m","e","-">> \o candidateId \o <<".","p","d","f">>
        uniqueFileName == <<"r","e","s","u","m","e","/">> \o candidateId \o <<"_">> \o NowText \o <<"_">>
                          \o sanitizeFileName(originalFileName)
    IN  [kind |-> "return",
         payload |-> <<"h","t","t","p","s",":","/","/","s","t","o","r","a","g","e",".","g","o","o","g","l","e","a","p","i","s",".","c","o","m","/">> \o BucketName \o <<"/">>
                     \o encodeURIComponent(uniqueFileName),
         message |-> <<>>, draws |-> 0]

uploadToFirebaseStorage(filePath, filename, candidateId, ok, errorMessage) ==
    LET originalFileName == IF filename # <<>> THEN filename
                            ELSE <<"r","e","s","u","m","e","-">> \o candidateId \o <<".","p","d","f">>
        uniqueFileName == <<"r","e","s","u","m","e","/">> \o candidateId \o <<"_">> \o NowText \o <<"_">>
                          \o sanitizeFileName(originalFileName)
    IN  IF ok
        THEN [kind |-> "return",
              payload |-> <<"h","t","t","p","s",":","/","/","s","t","o","r","a","g","e",".","g","o","o","g","l","e","a","p","i","s",".","c","o","m","/">> \o BucketName \o <<"/">>
                          \o encodeURIComponent(uniqueFileName),
              message |-> <<>>, draws |-> 0]
        ELSE Thrown(<<"F","a","i","l","e","d"," ","t","o"," ","u","p","l","o","a","d"," ","f","i","l","e"," ","'">> \o filename
                    \o <<"'"," ","t","o"," ","F","i","r","e","b","a","s","e"," ","S","t","o","r","a","g","e",":"," ">> \o errorMessage)

\* the object saveCandidateToRealtimeDatabase writes under talent_pool/<id>
dataToSave(candidate) ==
    [id |-> candidate.id, name |-> candidate.name, email |-> candidate.email,
     phone |-> candidate.phone, location |-> candidate.location,
     score |-> candidate.score, parsedText |-> candidate.parsedText,
     skills |-> IF candidate.skills.t = "arr" THEN candidate.skills ELSE ARR(<<>>),
     experience |-> candidate.experience, jobTitle |-> candidate.jobTitle,
     education |-> candidate.education,
     approved |-> IF candidate.approved.t = "bool" THEN candidate.approved ELSE BOOL(FALSE),
     resumeUrl |-> Or(candidate.resumeUrl, STR(<<"N","/","A">>)),
     processedAt |-> STR(<<"T","I","M","E","S","T","A","M","P">>)]

\* candidateRef.set(dataToSave) replaces what the store holds under the id
putRecord(store, data) == {d \in store : d.id # data.id} \cup {data}

\* a save whose catch block throws the error of a failed write again
saveOrThrow(candidate, store, ok) ==
    IF ok
    THEN [kind |-> "return", store |-> putRecord(store, dataToSave(candidate)),
          message |-> <<>>]
    ELSE [kind |-> "throw", store |-> store, message |-> <<"P","E","R","M","I","S","S","I","O","N","_","D","E","N","I","E","D">>]

\* ok: candidateRef.set resolved.  The catch block logs the error of a failed
\* write and returns: the promise of saveCandidateToRealtimeDatabase always
\* resolves.
saveCandidateToRealtimeDatabase(candidate, store, ok) ==
    IF ok
    THEN [kind |-> "return", store |-> putRecord(store, dataToSave(candidate)),
          message |-> <<>>]
    ELSE [kind |-> "return", store |-> store, message |-> <<>>]

\* ------------------------------------------------------------------------
\* processInBatches and processResumeFiles
\* ------------------------------------------------------------------------

BatchSize == 5

MinTextLength == 50

\* a list of failure names that misses the labels of an empty and of an
\* unparsable reply
geminiErrorNamesShort ==
    {<<"A","P","I"," ","K","e","y"," ","M","i","s","s","i","n","g">>, <<"A","P","I"," ","N","o"," ","R","e","s","p","o","n","s","e">>, <<"C","o","n","t","e","n","t"," ","B","l","o","c","k","e","d">>, <<"P","a","r","s","i","n","g"," ","F","a","i","l","e","d">>}

geminiErrorNames ==
    {<<"A","P","I"," ","K","e","y"," ","M","i","s","s","i","n","g">>, <<"A","P","I"," ","N","o"," ","R","e","s","p","o","n","s","e">>, <<"E","m","p","t","y"," ","A","I"," ","R","e","s","p","o","n","s","e">>,
     <<"J","S","O","N"," ","P","a","r","s","e"," ","F","a","i","l","e","d">>, <<"C","o","n","t","e","n","t"," ","B","l","o","c","k","e","d">>, <<"P","a","r","s","i","n","g"," ","F","a","i","l","e","d">>}

\* {...a, ...b}
Merge(a, b) ==
    [k \in DOMAIN a \cup DOMAIN b |-> IF k \in DOMAIN b THEN b[k] ELSE a[k]]

RECURSIVE insertByScore(_, _)
\* x goes before the first record whose score is lower than its own
insertByScore(sorted, x) ==
    IF sorted = <<>> THEN <<x>>
    ELSE IF Head(sorted).score.v < x.score.v THEN <<x>> \o sorted
    ELSE <<Head(sorted)>> \o insertByScore(Tail(sorted), x)

RECURSIVE sortFrom(_, _)
sortFrom(sorted, rest) ==
    IF rest = <<>> THEN sorted
    ELSE sortFrom(insertByScore(sorted, Head(rest)), Tail(rest))

\* a sort by score that puts records of equal score in the reverse of the
\* order they had
sortReversingTies(candidates) ==
    sortFrom(<<>>, [k \in 1..Len(candidates) |-> candidates[Len(candidates) + 1 - k]])

\* candidates.sort((a, b) => b.score - a.score): Array.prototype.sort is
\* stable
sortByScore(candidates) == sortFrom(<<>>, candidates)

\* the reason of a configuration error
configReason(key) ==
    IF ~key THEN <<"G","e","m","i","n","i"," ","A","P","I"," ","K","e","y"," ","i","s"," ","n","o","t"," ","c","o","n","f","i","g","u","r","e","d",".">>
    ELSE <<"F","i","r","e","b","a","s","e"," ","A","d","m","i","n"," ","S","D","K"," ","f","a","i","l","e","d"," ","t","o"," ","i","n","i","t","i","a","l","i","z","e",".">>

\* the record of one file of a run that a configuration error stops
configErrorCandidate(file, id, key, n) ==
    LET gemini == includes(configReason(key), <<"G","e","m","i","n","i">>)
    IN  validateCandidate(
            [id |-> STR(id),
             name |-> STR(IF gemini THEN <<"A","P","I"," ","K","e","y"," ","M","i","s","s","i","n","g">> ELSE <<"S","e","r","v","i","c","e"," ","E","r","r","o","r">>),
             email |-> STR((IF gemini THEN <<"a","p","i","_","k","e","y","_","m","i","s","s","i","n","g">> ELSE <<"s","e","r","v","i","c","e","_","e","r","r","o","r">>)
                           \o <<"_">> \o id \o <<"@","e","x","a","m","p","l","e",".","c","o","m">>),
             phone |-> STR(<<"N","/","A">>), location |-> STR(<<"N","/","A">>), score |-> INT(0),
             parsedText |-> STR(<<"P","r","o","c","e","s","s","i","n","g"," ","s","k","i","p","p","e","d",":"," ">> \o configReason(key)
                                \o <<" ","F","i","l","e",":"," ">> \o file.originalname),
             skills |-> ARR(<<>>), experience |-> INT(0), jobTitle |-> STR(<<"E","r","r","o","r">>),
             education |-> STR(<<"N","/","A">>),
             resumeUrl |-> STR(<<"F","i","l","e"," ","r","e","c","e","i","v","e","d",":"," ">> \o file.originalname)],
            n)

\* the record of a file whose declared type is not application/pdf
invalidTypeCandidate(file, id, n) ==
    validateCandidate(
        [id |-> STR(id), name |-> STR(<<"I","n","v","a","l","i","d"," ","F","i","l","e"," ","T","y","p","e">>),
         email |-> STR(<<"i","n","v","a","l","i","d","_","t","y","p","e","_">> \o id \o <<"@","e","x","a","m","p","l","e",".","c","o","m">>),
         phone |-> STR(<<"N","/","A">>), location |-> STR(<<"N","/","A">>), score |-> INT(0),
         parsedText |-> STR(<<"S","k","i","p","p","e","d"," ","p","r","o","c","e","s","s","i","n","g"," ","d","u","e"," ","t","o"," ","i","n","v","a","l","i","d"," ","f","i","l","e"," ","t","y","p","e"," ","o","r"," ","d","a","t","a"," ","(","'">>
                            \o file.originalname \o <<"'",","," ","M","I","M","E",":"," ">> \o file.mimetype
                            \o <<")","."," ","O","n","l","y"," ","P","D","F"," ","f","i","l","e","s"," ","a","r","e"," ","s","u","p","p","o","r","t","e","d",".">>),
         skills |-> ARR(<<>>), experience |-> INT(0), jobTitle |-> STR(<<"N","/","A">>),
         education |-> STR(<<"N","/","A">>),
         resumeUrl |-> STR(<<"F","i","l","e"," ","r","e","c","e","i","v","e","d",":"," ">> \o file.originalname)],
        n)

\* the record of a file whose extracted text is too short; n is the
\* identifier drawn for its email
insufficientTextCandidate(id, filename, n) ==
    validateCandidate(
        [id |-> STR(id), name |-> STR(<<"I","n","s","u","f","f","i","c","i","e","n","t"," ","T","e","x","t">>),
         email |-> STR(<<"i","n","s","u","f","f","i","c","i","e","n","t","_","t","e","x","t","_">> \o uuidv4(n) \o <<"@","e","x","a","m","p","l","e",".","c","o","m">>),
         phone |-> STR(<<"N","/","A">>), location |-> STR(<<"N","/","A">>), score |-> INT(0),
         parsedText |-> STR(<<"C","o","u","l","d"," ","n","o","t"," ","e","x","t","r","a","c","t"," ","e","n","o","u","g","h"," ","t","e","x","t"," ","f","r","o","m"," ","t","h","e"," ","P","D","F",","," ","o","r"," ","t","h","e"," ","P","D","F"," ","f","o","r","m","a","t"," ","w","a","s"," ","u","n","r","e","a","d","a","b","l","e",".">>),
         skills |-> ARR(<<>>), experience |-> INT(0), jobTitle |-> STR(<<"N","/","A">>),
         education |-> STR(<<"N","/","A">>),
         resumeUrl |-> STR(<<"F","i","l","e"," ","r","e","c","e","i","v","e","d",":"," ">> \o filename)],
        n + 1)

\* candidate = validateCandidate({...parsedCandidateData, id, approved: false,
\* resumeUrl: 'N/A'})
evaluatedCandidate(parsedCandidateData, id, n) ==
    validateCandidate(
        Merge(parsedCandidateData,
              [id |-> STR(id), approved |-> BOOL(FALSE), resumeUrl |-> STR(<<"N","/","A">>)]),
        n)

\* an upload failure that turns the record into a failure record of score 0
uploadFailedScoreless(candidate, uploadErrorMessage) ==
    [candidate EXCEPT
        !.resumeUrl = STR(<<"U","p","l","o","a","d"," ","F","a","i","l","e","d">>),
        !.score = INT(0),
        !.parsedText = STR(candidate.parsedText.v
                           \o <<"\n","\n","N","o","t","e",":"," ","F","a","i","l","e","d"," ","t","o"," ","u","p","l","o","a","d"," ","r","e","s","u","m","e"," ","f","i","l","e",":"," ">>
                           \o substring0(uploadErrorMessage, 200) \o <<".",".",".">>)]

\* candidate.resumeUrl = 'Upload Failed' and the note appended to parsedText
uploadFailedCandidate(candidate, uploadErrorMessage) ==
    [candidate EXCEPT
        !.resumeUrl = STR(<<"U","p","l","o","a","d"," ","F","a","i","l","e","d">>),
        !.parsedText = STR(candidate.parsedText.v
                           \o <<"\n","\n","N","o","t","e",":"," ","F","a","i","l","e","d"," ","t","o"," ","u","p","l","o","a","d"," ","r","e","s","u","m","e"," ","f","i","l","e",":"," ">>
                           \o substring0(uploadErrorMessage, 200) \o <<".",".",".">>)]

\* a catch block that hands the error on
catchBlockRethrow(candidate, id, filename, message, n) == Thrown(message)

\* The catch block of the per-file try.  candidate is the record assigned
\* so far, or NULL.  geminiErrorNames is a const of the try block and is not
\* in scope here: the name and the jobTitle of the error record read it once
\* the tests before it have passed, and the read throws a ReferenceError.
catchBlock(candidate, id, filename, message, n) ==
    LET errorMessage == IF message # <<>> THEN message
                        ELSE <<"A","n"," ","u","n","e","x","p","e","c","t","e","d"," ","e","r","r","o","r"," ","o","c","c","u","r","r","e","d"," ","d","u","r","i","n","g"," ","f","i","l","e"," ","p","r","o","c","e","s","s","i","n","g",".">>
        has == candidate # NULL
        readsNames ==
            has /\ (\/ candidate.name.v \notin {<<"N","/","A">>, <<"P","r","o","c","e","s","s","i","n","g"," ","E","r","r","o","r">>}
                    \/ candidate.jobTitle.v \notin {<<"N","/","A">>, <<"E","r","r","o","r">>})
        keepEmail == has /\ candidate.email.v # <<"N","/","A">>
                     /\ ~startsWith(candidate.email.v, <<"p","r","o","c","e","s","s","i","n","g","_","e","r","r","o","r","_">>)
        keepSummary == has /\ Truthy(candidate.parsedText)
                       /\ candidate.parsedText.v # <<"N","o"," ","s","u","m","m","a","r","y"," ","p","r","o","v","i","d","e","d",".">>
        keepUrl == has /\ Truthy(candidate.resumeUrl)
                   /\ candidate.resumeUrl.v \notin {<<"N","/","A">>, <<"U","p","l","o","a","d"," ","F","a","i","l","e","d">>}
    IN  IF readsNames
        THEN Thrown(<<"g","e","m","i","n","i","E","r","r","o","r","N","a","m","e","s"," ","i","s"," ","n","o","t"," ","d","e","f","i","n","e","d">>)
        ELSE Returned(
                 validateCandidate(
                     [id |-> STR(id),
                      name |-> STR(<<"P","r","o","c","e","s","s","i","n","g"," ","E","r","r","o","r">>),
                      email |-> IF keepEmail THEN candidate.email
                                ELSE STR(<<"p","r","o","c","e","s","s","i","n","g","_","e","r","r","o","r","_">> \o uuidv4(n)
                                         \o <<"@","e","x","a","m","p","l","e",".","c","o","m">>),
                      phone |-> IF has THEN candidate.phone ELSE STR(<<"N","/","A">>),
                      location |-> IF has THEN candidate.location ELSE STR(<<"N","/","A">>),
                      score |-> INT(0),
                      parsedText |->
                          IF keepSummary
                          THEN STR(<<"A","n"," ","e","r","r","o","r"," ","o","c","c","u","r","r","e","d"," ","d","u","r","i","n","g"," ","p","r","o","c","e","s","s","i","n","g",":"," ">> \o errorMessage
                                   \o <<"\n","\n","O","r","i","g","i","n","a","l"," ","s","u","m","m","a","r","y",":"," ">> \o candidate.parsedText.v)
                          ELSE STR(<<"A","n"," ","e","r","r","o","r"," ","o","c","c","u","r","r","e","d"," ","d","u","r","i","n","g"," ","p","r","o","c","e","s","s","i","n","g"," ","t","h","i","s"," ","f","i","l","e"," ","(","'">>
                                   \o filename \o <<"'",")",":"," ">> \o errorMessage),
                      skills |-> IF has THEN candidate.skills ELSE ARR(<<>>),
                      experience |-> IF has THEN candidate.experience ELSE INT(0),
                      jobTitle |-> STR(<<"E","r","r","o","r">>),
                      education |-> IF has THEN candidate.education ELSE STR(<<"N","/","A">>),
                      approved |-> BOOL(FALSE),
                      resumeUrl |-> IF keepUrl THEN candidate.resumeUrl
                                    ELSE STR(<<"P","r","o","c","e","s","s","i","n","g"," ","F","a","i","l","e","d">>)],
                     n + (IF keepEmail THEN 0 ELSE 1)),
                 IF keepEmail THEN 0 ELSE 1)

\* ------------------------------------------------------------------------
\* The run
\* ------------------------------------------------------------------------

VARIABLES
    apiKey,              \* process.env.NEXT_PUBLIC_GEMINI_API_KEY is set
    databaseReady,       \* admin.apps.length > 0 and database is set
    bucketReady,         \* bucket is set
    files,               \* multerFiles, the files of the run
    jobDescription,
    recruiterSuggestion,
    pc,                  \* where the run stands: the call it awaits
    i,                   \* processInBatches: the offset of the batch
    j,                   \* the place in the batch of the file in hand
    item,                \* the locals of the file in hand
    batchResults,
    results,             \* processInBatches: results
    result,              \* what processResumeFiles returned
    nextUuid,            \* the number of identifiers uuidv4 handed out
    tmp,                 \* the files whose temporary file exists
    db,                  \* the objects the record store holds
    bg,                  \* saves in flight that nothing awaits
    log,                 \* the calls made to the collaborators, in order
    trace,               \* what became of each file that was processed
    variations,          \* choices of the run that left the plain course
    probe                \* a function under test, its input and its output

vars ==
    <<apiKey, databaseReady, bucketReady, files, jobDescription,
      recruiterSuggestion, pc, i, j, item, batchResults, results, result,
      nextUuid, tmp, db, bg, log, trace, variations, probe>>

MaxFiles == 6

MaxVariations == 2

PdfType == <<"a","p","p","l","i","c","a","t","i","o","n","/","p","d","f">>

FileKinds == {"pdf", "png", "unnamed"}

\* the k-th file of a request: multer gives it a temporary path; a file of
\* kind "unnamed" has no original name
MulterFile(k, kind) ==
    [mimetype |-> IF kind = "png" THEN <<"i","m","a","g","e","/","p","n","g">> ELSE PdfType,
     path |-> <<"/","t","m","p","/">> \o <<DigitChars[k + 1]>>,
     originalname |-> IF kind = "unnamed" THEN <<>>
                      ELSE <<"c","v">> \o <<DigitChars[k + 1]>>
                           \o (IF kind = "png" THEN <<".","p","n","g">> ELSE <<".","p","d","f">>)]

JobDescriptions == {<<"n","o","d","e"," ","d","e","v","e","l","o","p","e","r">>}

RecruiterSuggestions == {<<"n","o"," ","j","o","b"," ","h","o","p","p","e","r","s">>}

PdfPlain ==
    [k |-> "dataReady", s |-> <<>>,
     chunks |-> <<<<"J","o"," ","L","i"," ","J","O",".","L","I","@","M","a","i","l",".","c","o","m">>, <<"d","e","v","e","l","o","p","e","r"," ","w","i","t","h"," ","m","a","n","y"," ","y","e","a","r","s"," ","o","f"," ","n","o","d","e"," ","a","n","d"," ","s","q","l">>>>]

PdfNoEmail ==
    [k |-> "dataReady", s |-> <<>>,
     chunks |-> <<<<"A","n","n"," ","P","o","e"," ","e","n","g","i","n","e","e","r">>, <<"n","i","n","e"," ","y","e","a","r","s"," ","o","f"," ","j","a","v","a"," ","a","n","d"," ","c","l","o","u","d"," ","w","o","r","k">>>>]

PdfShort ==
    [k |-> "dataReady", s |-> <<>>,
     chunks |-> <<<<"b","o","@","x",".","i","o">>, <<"s","h","o","r","t"," ","n","o","t","e"," ","w","i","t","h"," ","f","o","r","t","y"," ","o","n","e"," ","c","h","a","r","a","c","t","e","r","s"," ","o","k","!","!">>>>]

PdfEmpty == [k |-> "dataReady", s |-> <<>>, chunks |-> <<>>]

PdfCorrupt == [k |-> "dataError", chunks |-> <<>>, s |-> <<"I","n","v","a","l","i","d"," ","P","D","F"," ","s","t","r","u","c","t","u","r","e">>]

Reply(s) == [k |-> "text", s |-> s]

ReplyPlain == Reply(DocPlain)

ReplyFenced == Reply(<<BackTick,BackTick,BackTick,"j","s","o","n","\n">> \o DocStrong \o <<"\n",BackTick,BackTick,BackTick,"\n","L","e","t"," ","m","e"," ","k","n","o","w"," ","{","i","f","}"," ","n","e","e","d","e","d",".">>)

ReplyFencedQuoted == Reply(<<BackTick,BackTick,BackTick,"j","s","o","n","\n">> \o DocQuoted \o <<"\n",BackTick,BackTick,BackTick,"\n","H","o","p","e"," ","t","h","i","s"," ","h","e","l","p","s",".">>)

ReplyBroken == Reply(<<"{","\"","n","a","m","e","\"",":","\"","J","o"," ","L","i","\"",",">>)

ReplyProse == Reply(<<"I"," ","c","a","n","n","o","t"," ","s","c","o","r","e"," ","t","h","i","s"," ","r","e","s","u","m","e",".">>)

ReplyEmpty == Reply(<<>>)

ReplyBlocked == [k |-> "throws", s |-> <<"R","e","s","p","o","n","s","e"," ","w","a","s"," ","b","l","o","c","k","e","d"," ","d","u","e"," ","t","o"," ","s","a","f","e","t","y"," ","r","a","t","i","n","g","s">>]

ReplyFailed == [k |-> "throws", s |-> <<"f","e","t","c","h"," ","f","a","i","l","e","d">>]

GeminiOutcomes ==
    {ReplyPlain, Reply(DocStrong), ReplyFenced,
     Reply(<<BackTick,BackTick,BackTick,"\n">> \o DocStrong \o <<"\n",BackTick,BackTick,BackTick>>), Reply(DocFraction),
     Reply(DocOverflow), Reply(DocNegative), Reply(DocLabel), Reply(DocTextScore),
     Reply(DocNull), ReplyBroken, ReplyProse, ReplyEmpty, Reply(<<BackTick,BackTick,BackTick,"j","s","o","n","\n",BackTick,BackTick,BackTick>>),
     [k |-> "shape", s |-> <<>>], ReplyBlocked, ReplyFailed, ReplyFencedQuoted,
     Reply(DocQuoted), Reply(DocUntidy), Reply(DocArray)}

\* the outcomes a run draws from: the evaluator on its own is taken through
\* all of GeminiOutcomes, a run through those that lead its file on
\* different courses
RunPdfOutcomes == {PdfPlain, PdfNoEmail, PdfShort, PdfCorrupt}

RunGeminiOutcomes ==
    {ReplyPlain, ReplyFenced, Reply(DocFraction), Reply(DocOverflow), Reply(DocLabel),
     Reply(DocUntidy), ReplyBroken, ReplyEmpty, ReplyBlocked, ReplyFailed}

UploadErrorMessage == <<"s","o","c","k","e","t"," ","h","a","n","g"," ","u","p">>

\* a type filter that lets every file through
allIndex == [k \in 1..Len(files) |-> k]

\* a filter that hands the files of type application/pdf over last first
pdfIndexReversed ==
    LET kept == SelectSeq([k \in 1..Len(files) |-> k],
                          LAMBDA k : files[k].mimetype = PdfType)
    IN  [k \in 1..Len(kept) |-> kept[Len(kept) + 1 - k]]

pdfIndex == SelectSeq([k \in 1..Len(files) |-> k], LAMBDA k : files[k].mimetype = PdfType)

nonPdfIndex == SelectSeq([k \in 1..Len(files) |-> k], LAMBDA k : files[k].mimetype # PdfType)

\* multerFiles.filter(file => file.mimetype === 'application/pdf')
pdfFiles == [k \in 1..Len(pdfIndex) |-> files[pdfIndex[k]]]

nonPdfFiles == [k \in 1..Len(nonPdfIndex) |-> files[nonPdfIndex[k]]]

\* a check of the API key alone
configErrorOfKey == ~apiKey

\* !apiKey || admin.apps.length === 0 || !database || !bucket
configError == ~apiKey \/ ~databaseReady \/ ~bucketReady

\* the test the batch loop applies before it takes a file up
validEntry(file) == file.path # <<>> /\ file.originalname # <<>>

\* the place in `files` of the file in hand
cur == pdfIndex[i + j]

NoItem ==
    [id |-> <<>>, text |-> <<>>, candidate |-> NULL, saving |-> NULL,
     inCatch |-> FALSE, thrown |-> FALSE, stage |-> "none", reply |-> NULL]

NoResult == [returned |-> FALSE]

\* an entry of the log: op is called for the file at place f
Call(op, f) == [op |-> op, f |-> f]

\* an entry of the log: the call of op for the file at place f has settled;
\* ok tells whether the collaborator did its work
Ret(op, f, ok) == [op |-> "return", of |-> op, f |-> f, ok |-> ok]

\* a loop that waits after every batch that was full
moreBatchesInclusive(offset, batchSize, length) == offset + batchSize <= length

\* i + batchSize < items.length: a batch is left after the one at offset
moreBatches(offset, batchSize, length) == offset + batchSize < length

\* a test that also turns away a text of exactly 50 characters
insufficientTextInclusive(text) == Len(trim(text)) <= MinTextLength

\* !text || text.trim().length < 50
insufficientText(text) == Len(trim(text)) < MinTextLength

\* a choice that leaves the plain course is taken only within the budget
Within(plain) ==
    /\ plain \/ variations < MaxVariations
    /\ variations' = IF plain THEN variations ELSE variations + 1

Init ==
    /\ apiKey \in BOOLEAN
    /\ databaseReady \in BOOLEAN
    /\ bucketReady \in BOOLEAN
    /\ jobDescription \in JobDescriptions
    /\ recruiterSuggestion \in RecruiterSuggestions
    /\ \E n \in 0..MaxFiles : \E kinds \in [1..n -> FileKinds] :
          /\ files = [k \in 1..n |-> MulterFile(k, kinds[k])]
          /\ variations = Cardinality({k \in 1..n : kinds[k] # "pdf"})
                          + Cardinality({b \in {1, 2, 3} : ~<<apiKey, databaseReady, bucketReady>>[b]})
          /\ tmp = 1..n
    /\ variations <= MaxVariations
    /\ pc = "start"
    /\ i = 0
    /\ j = 0
    /\ item = NoItem
    /\ batchResults = <<>>
    /\ results = <<>>
    /\ result = NoResult
    /\ nextUuid = 0
    /\ db = {}
    /\ bg = {}
    /\ log = <<>>
    /\ trace = <<>>
    /\ probe = [stage |-> "off"]

\* The run goes on with the file at place from of the batch at offset: it
\* skips the entries that are no valid file, takes the next one up (an
\* identifier, then the extraction call), and if the batch has none left it
\* ends the batch, and after the last batch sorts and returns.
Proceed(offset, from, res, bres, n, lg) ==
    LET size == IF Len(pdfFiles) - offset < BatchSize THEN Len(pdfFiles) - offset
                ELSE BatchSize
        valid == {q \in from..size : validEntry(pdfFiles[offset + q])}
        all == res \o bres
    IN  IF valid # {}
        THEN /\ pc' = "extract"
             /\ i' = offset
             /\ j' = SetMin(valid)
             /\ item' = [NoItem EXCEPT !.id = uuidv4(n)]
             /\ nextUuid' = n + 1
             /\ log' = Append(lg, Call("extract", pdfIndex[offset + SetMin(valid)]))
             /\ batchResults' = bres
             /\ results' = res
             /\ result' = result
        ELSE IF moreBatches(offset, BatchSize, Len(pdfFiles))
        THEN /\ pc' = "delay"
             /\ i' = offset
             /\ j' = 0
             /\ item' = NoItem
             /\ nextUuid' = n
             /\ log' = Append(lg, Call("delay", 0))
             /\ batchResults' = <<>>
             /\ results' = all
             /\ result' = result
        ELSE /\ pc' = "done"
             /\ i' = offset
             /\ j' = 0
             /\ item' = NoItem
             /\ nextUuid' = n
             /\ log' = lg
             /\ batchResults' = <<>>
             /\ results' = all
             /\ result' = [success |-> TRUE,
                           totalProcessed |-> Len(files),
                           validPdfProcessed |-> Len(all),
                           invalidFilesSkipped |-> Len(nonPdfFiles),
                           candidates |-> sortByScore(all),
                           message |-> <<"P","r","o","c","e","s","s","i","n","g"," ","c","o","m","p","l","e","t","e",".">>]

Return(value, n, lg) ==
    /\ pc' = "done"
    /\ result' = value
    /\ nextUuid' = n
    /\ log' = lg
    /\ UNCHANGED <<i, j, item, batchResults, results>>

\* processResumeFiles, from its call to its first await or to its return
\* when it awaits nothing
Start ==
    /\ pc = "start"
    /\ UNCHANGED <<apiKey, databaseReady, bucketReady, files, jobDescription,
                   recruiterSuggestion, tmp, db, trace, variations, probe>>
    /\ IF configError
       THEN LET candidatesWithError ==
                    [k \in 1..Len(files) |->
                        configErrorCandidate(files[k], uuidv4(nextUuid + k - 1), apiKey,
                                             nextUuid + k)]
            IN  /\ bg' = IF databaseReady THEN Range(candidatesWithError) ELSE {}
                /\ Return([success |-> FALSE,
                           totalProcessed |-> Len(files),
                           candidates |-> candidatesWithError,
                           message |-> <<"P","r","o","c","e","s","s","i","n","g"," ","a","b","o","r","t","e","d",":"," ">> \o configReason(apiKey)],
                          nextUuid + Len(files),
                          IF databaseReady
                          THEN log \o [k \in 1..Len(files) |-> Call("save", k)]
                          ELSE log)
       ELSE IF Len(files) = 0
       THEN /\ bg' = bg
            /\ Return([success |-> TRUE, totalProcessed |-> 0, candidates |-> <<>>,
                       message |-> <<"N","o"," ","f","i","l","e","s"," ","w","e","r","e"," ","p","r","o","v","i","d","e","d"," ","f","o","r"," ","p","r","o","c","e","s","s","i","n","g",".">>],
                      nextUuid, log)
       ELSE LET skipped ==
                    [k \in 1..Len(nonPdfFiles) |->
                        invalidTypeCandidate(nonPdfFiles[k], uuidv4(nextUuid + k - 1),
                                             nextUuid + k)]
                n == nextUuid + Len(nonPdfFiles)
                lg == log \o [k \in 1..Len(nonPdfFiles) |-> Call("save", nonPdfIndex[k])]
            IN  /\ bg' = Range(skipped)
                /\ IF Len(pdfFiles) = 0
                   THEN Return([success |-> TRUE,
                                totalProcessed |-> Len(files),
                                validPdfProcessed |-> 0,
                                invalidFilesSkipped |-> Len(nonPdfFiles),
                                candidates |-> <<>>,
                                message |-> <<"N","o"," ","v","a","l","i","d"," ","P","D","F"," ","f","i","l","e","s"," ","w","e","r","e"," ","p","r","o","v","i","d","e","d"," ","f","o","r"," ","p","r","o","c","e","s","s","i","n","g",".">>],
                               n, lg)
                   ELSE Proceed(0, 1, <<>>, <<>>, n, lg)

\* an upload that is called and not awaited: the save is called at once
CallUploadUnawaited(candidate, reply, n, lg) ==
    /\ pc' = "save"
    /\ item' = [item EXCEPT !.candidate = candidate, !.saving = candidate,
                            !.stage = "uploaded", !.reply = reply]
    /\ nextUuid' = n
    /\ log' = Append(Append(lg, Call("upload", cur)), Call("save", cur))

\* the upload of the file of the evaluated candidate is called and awaited;
\* reply is the outcome of the evaluator the candidate was built from
CallUpload(candidate, reply, n, lg) ==
    /\ pc' = "upload"
    /\ item' = [item EXCEPT !.candidate = candidate, !.reply = reply]
    /\ nextUuid' = n
    /\ log' = Append(lg, Call("upload", cur))

\* the save of record is called and awaited
CallSave(record, inCatch, stage, n, lg) ==
    /\ pc' = "save"
    /\ item' = [item EXCEPT !.saving = record, !.inCatch = inCatch, !.stage = stage]
    /\ nextUuid' = n
    /\ log' = Append(lg, Call("save", cur))

\* a per-file try without its finally block: the temp file is left for later
CallNoCleanup(thrown, lg) ==
    /\ pc' = "cleanup"
    /\ item' = [item EXCEPT !.thrown = thrown]
    /\ log' = lg

\* the finally block: fs.access, then fs.unlink
CallCleanup(thrown, lg) ==
    /\ pc' = "cleanup"
    /\ item' = [item EXCEPT !.thrown = thrown]
    /\ log' = Append(lg, Call("unlink", cur))

\* an error reaches the catch block of the per-file try
Catch(message, stage, n, lg) ==
    LET c == catchBlock(item.candidate, item.id, files[cur].originalname, message, n)
    IN  IF c.kind = "throw"
        THEN CallCleanup(TRUE, lg) /\ nextUuid' = n
        ELSE CallSave(c.payload, TRUE, stage, n + c.draws, lg)

\* extractTextFromPdf settles
ExtractReturn ==
    /\ pc = "extract"
    /\ UNCHANGED <<apiKey, databaseReady, bucketReady, files, jobDescription,
                   recruiterSuggestion, i, j, batchResults, results, result,
                   tmp, db, bg, trace, probe>>
    /\ \E outcome \in RunPdfOutcomes :
          /\ Within(outcome = PdfPlain)
          /\ LET r == extractTextFromPdf(files[cur].path, files[cur].originalname, outcome)
                 lg == Append(log, Ret("extract", cur, r.kind = "return"))
             IN  IF r.kind = "throw"
                 THEN Catch(r.message, "extractFailed", nextUuid, lg)
                 ELSE IF insufficientText(r.payload)
                 THEN /\ pc' = "save"
                      /\ LET c == insufficientTextCandidate(item.id, files[cur].originalname,
                                                            nextUuid)
                         IN  item' = [item EXCEPT !.text = r.payload, !.candidate = c,
                                                  !.saving = c, !.stage = "insufficient"]
                      /\ nextUuid' = nextUuid + 1
                      /\ log' = Append(lg, Call("save", cur))
                 ELSE /\ pc' = "evaluate"
                      /\ item' = [item EXCEPT !.text = r.payload]
                      /\ nextUuid' = nextUuid
                      /\ log' = Append(lg, Call("evaluate", cur))

\* model.generateContent settles and parseWithGemini runs to its end
EvaluateReturn ==
    /\ pc = "evaluate"
    /\ UNCHANGED <<apiKey, databaseReady, bucketReady, files, jobDescription,
                   recruiterSuggestion, i, j, batchResults, results, result,
                   tmp, db, bg, trace, probe>>
    /\ \E outcome \in RunGeminiOutcomes :
          /\ Within(outcome = ReplyPlain)
          /\ LET r == parseWithGemini(item.text, jobDescription, recruiterSuggestion,
                                      apiKey, outcome, nextUuid)
                 n == nextUuid + r.draws
                 c == evaluatedCandidate(r.payload, item.id, n)
                 m == n + uuidsDrawn(r.payload)
                 lg == Append(log, Ret("evaluate", cur, r.kind = "return"))
             IN  IF r.kind = "throw"
                 THEN Catch(r.message, "evaluateThrew", nextUuid, lg)
                 ELSE IF c.name.v \in geminiErrorNames
                 THEN /\ pc' = "save"
                      /\ item' = [item EXCEPT !.candidate = c, !.saving = c,
                                              !.stage = "evaluateFailed",
                                              !.reply = outcome]
                      /\ nextUuid' = m
                      /\ log' = Append(lg, Call("save", cur))
                 ELSE CallUpload(c, outcome, m, lg)

\* uploadToFirebaseStorage settles
UploadReturn ==
    /\ pc = "upload"
    /\ UNCHANGED <<apiKey, databaseReady, bucketReady, files, jobDescription,
                   recruiterSuggestion, i, j, batchResults, results, result,
                   nextUuid, tmp, db, bg, trace, probe>>
    /\ \E ok \in BOOLEAN :
          /\ Within(ok)
          /\ LET r == uploadToFirebaseStorage(files[cur].path, files[cur].originalname,
                                              item.id, ok, UploadErrorMessage)
                 c == IF r.kind = "return"
                      THEN [item.candidate EXCEPT !.resumeUrl = STR(r.payload)]
                      ELSE uploadFailedCandidate(item.candidate, r.message)
             IN  /\ pc' = "save"
                 /\ item' = [item EXCEPT !.candidate = c, !.saving = c,
                                         !.stage = IF ok THEN "uploaded" ELSE "uploadFailed"]
                 /\ log' = Append(Append(log, Ret("upload", cur, ok)), Call("save", cur))

\* the awaited saveCandidateToRealtimeDatabase settles; the record is
\* pushed and the finally block begins
SaveReturn ==
    /\ pc = "save"
    /\ UNCHANGED <<apiKey, databaseReady, bucketReady, files, jobDescription,
                   recruiterSuggestion, i, j, results, result, tmp, bg, probe>>
    /\ \E ok \in BOOLEAN :
          /\ Within(ok)
          /\ LET r == saveCandidateToRealtimeDatabase(item.saving, db, ok)
                 lg == Append(log, Ret("save", cur, ok))
             IN  IF r.kind = "return"
                 THEN /\ db' = r.store
                      /\ batchResults' = Append(batchResults, item.saving)
                      /\ trace' = Append(trace,
                                         [f |-> cur, id |-> item.id, stage |-> item.stage,
                                          scanned |-> extractEmailFromText(item.text),
                                          reply |-> item.reply])
                      /\ nextUuid' = nextUuid
                      /\ CallCleanup(FALSE, lg)
                 ELSE /\ db' = db
                      /\ batchResults' = batchResults
                      /\ trace' = trace
                      /\ IF item.inCatch
                         THEN CallCleanup(TRUE, lg) /\ nextUuid' = nextUuid
                         ELSE Catch(r.message, item.stage, nextUuid, lg)

\* fs.access and fs.unlink settle: the temporary file is gone unless the
\* deletion failed.  An error that left the catch block goes on from here
\* and rejects the run.
CleanupReturn ==
    /\ pc = "cleanup"
    /\ UNCHANGED <<apiKey, databaseReady, bucketReady, files, jobDescription,
                   recruiterSuggestion, db, bg, trace, probe>>
    /\ \E deleted \in BOOLEAN :
          /\ Within(deleted)
          /\ tmp' = IF deleted THEN tmp \ {cur} ELSE tmp
          /\ IF item.thrown
             THEN /\ pc' = "rejected"
                  /\ log' = Append(log, Ret("unlink", cur, deleted))
                  /\ UNCHANGED <<i, j, item, batchResults, results, result, nextUuid>>
             ELSE Proceed(i, j + 1, results, batchResults, nextUuid,
                          Append(log, Ret("unlink", cur, deleted)))

\* delay(5000) settles and the next batch begins
DelayReturn ==
    /\ pc = "delay"
    /\ UNCHANGED <<apiKey, databaseReady, bucketReady, files, jobDescription,
                   recruiterSuggestion, tmp, db, bg, trace, variations, probe>>
    /\ Proceed(i + BatchSize, 1, results, <<>>, nextUuid, Append(log, Ret("delay", 0, TRUE)))

\* a save that nothing awaits settles
BgSaveReturn ==
    /\ pc # "start"
    /\ UNCHANGED <<apiKey, databaseReady, bucketReady, files, jobDescription,
                   recruiterSuggestion, pc, i, j, item, batchResults, results,
                   result, nextUuid, tmp, log, trace, probe>>
    /\ \E candidate \in bg : \E ok \in BOOLEAN :
          /\ Within(ok)
          /\ bg' = bg \ {candidate}
          /\ db' = saveCandidateToRealtimeDatabase(candidate, db, ok).store

Next ==
    \/ Start
    \/ ExtractReturn
    \/ EvaluateReturn
    \/ UploadReturn
    \/ SaveReturn
    \/ CleanupReturn
    \/ DelayReturn
    \/ BgSaveReturn

Spec == Init /\ [][Next]_vars

\* the run when every call it awaits settles: the run does not stay for
\* ever at its start or at an await (of the extraction, the evaluation, the
\* upload, the save, the deletion or the delay) but goes on from it; a step
\* that leaves such a point is a step of the action that waits there
SpecLive ==
    /\ Init
    /\ [][Next]_vars
    /\ WF_pc(/\ pc \in {"start", "extract", "evaluate", "upload", "save", "cleanup", "delay"}
             /\ pc' \in {"extract", "evaluate", "upload", "save", "cleanup", "delay",
                         "done", "rejected"})

\* ------------------------------------------------------------------------
\* validateCandidate and parseWithGemini on their own
\* ------------------------------------------------------------------------

MaxNameLength == 3

NameAlphabet == {"a", "n", "N", "/", " ", "'"}

\* the strings over alphabet of length n at most
Strings(alphabet, n) == UNION {[1..k -> alphabet] : k \in 0..n}

NameInputs ==
    {STR(s) : s \in Strings(NameAlphabet, MaxNameLength)} \cup {UNDEF, NULL, INT(7)}

EmailInputs ==
    {UNDEF, STR(<<>>), INT(5), STR(<<"a","@","b",".","c","o">>), STR(<<" ","A",".","z","@","B","-","c",".","C","o","\n">>),
     STR(<<"a","@","b",".","c">>), STR(<<"a","b",".","c","o">>), STR(<<"a","@","@","b",".","c","o">>), STR(<<"a"," ","b","@","c",".","d","e">>),
     STR(<<"a","@","b",".","c","0","m">>), STR(<<"@","b",".","c","o">>), STR(<<"a","@",".","c","o">>)}

ContactPayloads == {[name |-> n, email |-> e] : n \in NameInputs, e \in EmailInputs}

FieldPayloads ==
    {[name |-> STR(<<"A","l"," ","R","o","e">>), email |-> STR(<<"a","l","@","x",".","i","o">>), score |-> s,
      experienceYears |-> y, skills |-> k, phone |-> t, parsedText |-> t,
      approved |-> a, resumeUrl |-> u, id |-> d] :
        s \in {UNDEF, STR(<<"8","7">>), INT(0), INT(87), NUM(874), NUM(875), INT(100),
                NUM(1004), INT(101), NUM(-4), NUM(-5), INT(-3)},
        y \in {UNDEF, INT(0), INT(5), NUM(25), INT(-1), STR(<<"5">>)},
        k \in {UNDEF, ARR(<<>>),
                ARR(<<STR(<<" ","j","s"," ">>), STR(<<" ">>), INT(4), STR(<<"g","o">>)>>), STR(<<"j","s">>)},
        t \in {UNDEF, STR(<<" ","n","/","A"," ">>), STR(<<" ","P","u","n","e"," ">>)},
        a \in {UNDEF, BOOL(TRUE)}, u \in {UNDEF, STR(<<"U","p","l","o","a","d"," ","F","a","i","l","e","d">>)},
        d \in {UNDEF, STR(<<"i","d","-","1">>)}}

Payloads == ContactPayloads \cup FieldPayloads

ExtractedTexts ==
    {trim(joinChunks(o.chunks)) : o \in {PdfPlain, PdfNoEmail, PdfShort, PdfEmpty}}
    \cup {<<"m","a","i","l"," ","b","o","@","x",".","i","o",","," ","o","r"," ","B","O","@","Y",".","O","R","G","."," ","T","h","a","n","k","s">>}

\* the variables of the run, at rest
AtRest ==
    /\ databaseReady = TRUE
    /\ bucketReady = TRUE
    /\ files = <<>>
    /\ jobDescription \in JobDescriptions
    /\ recruiterSuggestion \in RecruiterSuggestions
    /\ pc = "off"
    /\ i = 0
    /\ j = 0
    /\ item = NoItem
    /\ batchResults = <<>>
    /\ results = <<>>
    /\ result = NoResult
    /\ nextUuid = 0
    /\ tmp = {}
    /\ db = {}
    /\ bg = {}
    /\ log = <<>>
    /\ trace = <<>>
    /\ variations = 0

InitValidate ==
    /\ AtRest
    /\ apiKey = TRUE
    /\ probe \in {[stage |-> "payload", in |-> p] : p \in Payloads}

\* validateCandidate(candidateData)
Normalize ==
    /\ probe.stage = "payload"
    /\ probe' = [stage |-> "normalized", in |-> probe.in,
                 out |-> validateCandidate(probe.in, nextUuid)]
    /\ nextUuid' = nextUuid + uuidsDrawn(probe.in)
    /\ UNCHANGED <<apiKey, databaseReady, bucketReady, files, jobDescription,
                   recruiterSuggestion, pc, i, j, item, batchResults, results,
                   result, tmp, db, bg, log, trace, variations>>

\* validateCandidate(validateCandidate(candidateData))
Renormalize ==
    /\ probe.stage = "normalized"
    /\ probe' = [stage |-> "renormalized", in |-> probe.in, out |-> probe.out,
                 again |-> validateCandidate(probe.out, nextUuid)]
    /\ nextUuid' = nextUuid + uuidsDrawn(probe.out)
    /\ UNCHANGED <<apiKey, databaseReady, bucketReady, files, jobDescription,
                   recruiterSuggestion, pc, i, j, item, batchResults, results,
                   result, tmp, db, bg, log, trace, variations>>

SpecValidate == InitValidate /\ [][Normalize \/ Renormalize]_vars

InitEvaluator ==
    /\ AtRest
    /\ apiKey \in BOOLEAN
    /\ probe \in {[stage |-> "called", text |-> t, outcome |-> o] :
                     t \in ExtractedTexts, o \in GeminiOutcomes}

\* parseWithGemini(text, jobDescription, recruiterSuggestion), from its call
\* to the settling of its promise
Evaluate ==
    /\ probe.stage = "called"
    /\ LET r == parseWithGemini(probe.text, jobDescription, recruiterSuggestion,
                                apiKey, probe.outcome, nextUuid)
       IN  /\ probe' = [stage |-> "settled", text |-> probe.text,
                        outcome |-> probe.outcome, r |-> r]
           /\ nextUuid' = nextUuid + r.draws
    /\ UNCHANGED <<apiKey, databaseReady, bucketReady, files, jobDescription,
                   recruiterSuggestion, pc, i, j, item, batchResults, results,
                   result, tmp, db, bg, log, trace, variations>>

SpecEvaluator == InitEvaluator /\ [][Evaluate]_vars


\* ------------------------------------------------------------------------
\* processInBatches alone, with a callback that returns one result per item
\* ------------------------------------------------------------------------

MaxItems == 12

\* items.slice(start, end)
slice(items, start, end) ==
    [k \in 1..((IF end < Len(items) THEN end ELSE Len(items)) - start) |-> items[start + k]]

InitBatches ==
    /\ AtRest
    /\ apiKey = TRUE
    /\ probe \in {[stage |-> "called", items |-> [k \in 1..n |-> k], batchSize |-> b,
                    i |-> 0, results |-> <<>>, events |-> <<>>] :
                      n \in 0..MaxItems, b \in 1..BatchSize}

\* the test of the for loop with the offset at i: the callback is called with
\* the next slice, or the results are returned
nextBatch(offset, res, ev) ==
    IF offset < Len(probe.items)
    THEN probe' = [probe EXCEPT
                      !.stage = "batch", !.i = offset, !.results = res,
                      !.events = Append(ev, [op |-> "batch",
                                             items |-> slice(probe.items, offset,
                                                             offset + probe.batchSize)])]
    ELSE probe' = [probe EXCEPT !.stage = "returned", !.i = offset, !.results = res,
                                !.events = ev]

\* processInBatches(items, batchSize, processBatchFn), to its first await
BatchesCalled ==
    /\ probe.stage = "called"
    /\ nextBatch(0, <<>>, probe.events)
    /\ UNCHANGED <<apiKey, databaseReady, bucketReady, files, jobDescription,
                   recruiterSuggestion, pc, i, j, item, batchResults, results,
                   result, nextUuid, tmp, db, bg, log, trace, variations>>

\* processBatchFn(batch) settles
BatchFnReturn ==
    /\ probe.stage = "batch"
    /\ LET res == probe.results \o probe.events[Len(probe.events)].items
       IN  IF moreBatches(probe.i, probe.batchSize, Len(probe.items))
           THEN probe' = [probe EXCEPT !.stage = "delay", !.results = res,
                                       !.events = Append(probe.events, [op |-> "delay"])]
           ELSE nextBatch(probe.i + probe.batchSize, res, probe.events)
    /\ UNCHANGED <<apiKey, databaseReady, bucketReady, files, jobDescription,
                   recruiterSuggestion, pc, i, j, item, batchResults, results,
                   result, nextUuid, tmp, db, bg, log, trace, variations>>

\* delay(5000) settles
BatchDelayReturn ==
    /\ probe.stage = "delay"
    /\ nextBatch(probe.i + probe.batchSize, probe.results, probe.events)
    /\ UNCHANGED <<apiKey, databaseReady, bucketReady, files, jobDescription,
                   recruiterSuggestion, pc, i, j, item, batchResults, results,
                   result, nextUuid, tmp, db, bg, log, trace, variations>>

SpecBatches == InitBatches /\ [][BatchesCalled \/ BatchFnReturn \/ BatchDelayReturn]_vars

\* ------------------------------------------------------------------------
\* the truncation of parseWithGemini alone
\* ------------------------------------------------------------------------

\* the short texts are of 0 to MaxShortText characters
MaxShortText == 40

\* The texts, job descriptions and recruiter suggestions of the calls, by
\* their lengths: short ones, texts around the length at which the
\* truncation sets in, and a text and two fields (of the megabyte multer
\* lets a field have) long enough for a limit below zero.  A text of n
\* characters is the one Truncate builds.
InitTruncate ==
    /\ AtRest
    /\ apiKey = TRUE
    /\ probe \in {[stage |-> "called", textLength |-> n, jdLength |-> f, rsLength |-> f] :
                     n \in 0..MaxShortText
                           \cup {1704321, 1704322, 1704325, 2000000, 3976756, 3976757},
                     f \in {0, 14}}
                 \cup {[stage |-> "called", textLength |-> n, jdLength |-> 1000000,
                        rsLength |-> 1000000] : n \in {0, 62}}

\* parseWithGemini from its call to the text it puts into the prompt (lines
\* 337-352); the text sent is kept by its length and by whether it is the
\* start of the text
Truncate ==
    /\ probe.stage = "called"
    /\ LET filler == <<"r","e","s","u","m","e"," ">>
           text == [k \in 1..probe.textLength |-> filler[(k % 7) + 1]]
           jd == [k \in 1..probe.jdLength |-> "j"]
           rs == [k \in 1..probe.rsLength |-> "r"]
           sent == textForGemini(text, jd, rs)
       IN  probe' = [stage |-> "sent", textLength |-> probe.textLength,
                     jdLength |-> probe.jdLength, rsLength |-> probe.rsLength,
                     MAX_TEXT_CHARS |-> MAX_TEXT_CHARS(text, jd, rs),
                     sentLength |-> Len(sent),
                     sentIsStart |-> sent = SubSeq(text, 1, Len(sent))]
    /\ UNCHANGED <<apiKey, databaseReady, bucketReady, files, jobDescription,
                   recruiterSuggestion, pc, i, j, item, batchResults, results,
                   result, nextUuid, tmp, db, bg, log, trace, variations>>

SpecTruncate == InitTruncate /\ [][Truncate]_vars


\* ------------------------------------------------------------------------
\* two requests to /parse-resumes at one server
\* ------------------------------------------------------------------------

\* a request brings 1 to MaxRequestFiles files
MaxRequestFiles == 6

\* Two requests are on their way to the server, each with its files, all of
\* type application/pdf and the configuration complete; order will list the
\* requests as their handlers are called.
InitRequests ==
    /\ AtRest
    /\ apiKey = TRUE
    /\ probe \in {[stage |-> "requests",
                    runs |-> <<[pc |-> "sent", n |-> a, i |-> 0, j |-> 0],
                               [pc |-> "sent", n |-> b, i |-> 0, j |-> 0]>>,
                    order |-> <<>>] : a, b \in 1..MaxRequestFiles}

\* The handler of /parse-resumes is called for a request (line 944) and runs,
\* through processResumeFiles and processInBatches, to its first await: the
\* extraction of the first file of the first batch.  Nothing in the handler
\* looks at or waits for a run that is under way.
RequestArrives ==
    /\ probe.stage = "requests"
    /\ \E r \in DOMAIN probe.runs :
          /\ probe.runs[r].pc = "sent"
          /\ probe' = [probe EXCEPT !.runs[r].pc = "extract", !.runs[r].j = 1,
                                    !.order = Append(@, r)]
    /\ UNCHANGED <<apiKey, databaseReady, bucketReady, files, jobDescription,
                   recruiterSuggestion, pc, i, j, item, batchResults, results,
                   result, nextUuid, tmp, db, bg, log, trace, variations>>

\* The call a run awaits settles and the run goes on to its next await or to
\* its end, "done": the result is returned and the response sent (lines
\* 974-977).  A failed extraction or evaluation leads to the save of the
\* record of the failure; after the cleanup of a file comes the next file of
\* the batch, the delay before the next batch, or the end.
CallSettles ==
    /\ probe.stage = "requests"
    /\ \E r \in DOMAIN probe.runs : \E ok \in BOOLEAN :
          LET run == probe.runs[r]
              last == IF run.i + BatchSize < run.n THEN BatchSize ELSE run.n - run.i
          IN  /\ run.pc \in {"extract", "evaluate", "upload", "save", "cleanup", "delay"}
              /\ probe' =
                    [probe EXCEPT !.runs[r] =
                        CASE run.pc = "extract" ->
                               [run EXCEPT !.pc = IF ok THEN "evaluate" ELSE "save"]
                          [] run.pc = "evaluate" ->
                               [run EXCEPT !.pc = IF ok THEN "upload" ELSE "save"]
                          [] run.pc = "upload" -> [run EXCEPT !.pc = "save"]
                          [] run.pc = "save" -> [run EXCEPT !.pc = "cleanup"]
                          [] run.pc = "cleanup" ->
                               IF run.j < last
                               THEN [run EXCEPT !.pc = "extract", !.j = run.j + 1]
                               ELSE IF moreBatches(run.i, BatchSize, run.n)
                               THEN [run EXCEPT !.pc = "delay"]
                               ELSE [run EXCEPT !.pc = "done"]
                          [] run.pc = "delay" ->
                               [run EXCEPT !.pc = "extract", !.i = run.i + BatchSize,
                                           !.j = 1]]
    /\ UNCHANGED <<apiKey, databaseReady, bucketReady, files, jobDescription,
                   recruiterSuggestion, pc, i, j, item, batchResults, results,
                   result, nextUuid, tmp, db, bg, log, trace, variations>>

SpecRequests == InitRequests /\ [][RequestArrives \/ CallSettles]_vars
\* ------------------------------------------------------------------------
\* The properties
\* ------------------------------------------------------------------------

\* the run has returned and no setting was missing when it began
NormalRunDone == pc = "done" /\ apiKey /\ databaseReady /\ bucketReady

C3_EvaluatorNeverRaises ==
    probe.stage = "settled" => probe.r.kind = "return"

\* C4: for each of the five failure kinds (credentials missing, empty
\* response, malformed JSON, content-policy block, generic call failure)
\* parseWithGemini returns a payload whose name is the label of the kind and
\* whose email is the first address of the text when the text has one.
C4_FailureLabelAndScannedEmail ==
    probe.stage = "settled" =>
        LET o == probe.outcome
            scanned == extractEmailFromText(probe.text)
            cleaned == cleanGeminiJson(o.s)
            empty == o.k = "text" /\ (o.s = <<>> \/ trim(cleaned) = <<>>)
            label ==
                CASE ~apiKey -> <<"A","P","I"," ","K","e","y"," ","M","i","s","s","i","n","g">>
                  [] apiKey /\ o.k = "throws" /\ includes(o.s, <<"s","a","f","e","t","y"," ","r","a","t","i","n","g","s">>) ->
                        <<"C","o","n","t","e","n","t"," ","B","l","o","c","k","e","d">>
                  [] apiKey /\ o.k = "throws" /\ ~includes(o.s, <<"s","a","f","e","t","y"," ","r","a","t","i","n","g","s">>) ->
                        <<"P","a","r","s","i","n","g"," ","F","a","i","l","e","d">>
                  [] apiKey /\ empty -> <<"E","m","p","t","y"," ","A","I"," ","R","e","s","p","o","n","s","e">>
                  [] apiKey /\ o.k = "text" /\ ~empty /\ ~JSONparse(cleaned).ok ->
                        <<"J","S","O","N"," ","P","a","r","s","e"," ","F","a","i","l","e","d">>
                  [] OTHER -> <<>>
        IN  label # <<>> =>
                /\ probe.r.kind = "return"
                /\ probe.r.payload.name = STR(label)
                /\ scanned # NULL => probe.r.payload.email = scanned

\* C5: when a file fails after an email was scanned from its extracted text,
\* the error record of the file carries that email and no generated
\* placeholder.
C5_ErrorRecordKeepsScannedEmail ==
    pc = "done" =>
        \A t \in 1..Len(trace) :
            (trace[t].stage = "evaluateThrew" /\ trace[t].scanned # NULL) =>
                \A k \in 1..Len(result.candidates) :
                    result.candidates[k].id.v = trace[t].id
                        => result.candidates[k].email = trace[t].scanned

\* C6: validateCandidate is idempotent: normalizing a normalized record
\* gives the same record, in every field.
C6_NormalizeIdempotent ==
    probe.stage = "renormalized" => probe.again = probe.out

\* C7: every record of the candidates list a run returns, with or without a
\* configuration error, has the thirteen fields, none of them undefined, and
\* a score that is a whole number from 0 to 100.
C7_RecordsCompleteAndScored ==
    pc = "done" =>
        \A k \in 1..Len(result.candidates) :
            LET r == result.candidates[k]
            IN  /\ DOMAIN r = {"id", "name", "email", "phone", "location", "score",
                               "parsedText", "skills", "experience", "jobTitle",
                               "education", "approved", "resumeUrl"}
                /\ \A f \in DOMAIN r : r[f].t \notin {"undef", "null"}
                /\ r.score.t = "num"
                /\ r.score.v % 10 = 0
                /\ r.score.v >= 0
                /\ r.score.v <= 1000

\* a run has returned a record whose evaluator score was 150, now 100, and
\* the error record of a file whose evaluation threw
C7_ClampedAndFailed ==
    /\ NormalRunDone
    /\ \E t \in 1..Len(trace) : trace[t].stage = "evaluateThrew"
    /\ \E k \in 1..Len(result.candidates) :
          /\ result.candidates[k].score = INT(100)
          /\ result.candidates[k].resumeUrl.v # <<"P","r","o","c","e","s","s","i","n","g"," ","F","a","i","l","e","d">>
    /\ \E k \in 1..Len(result.candidates) :
          result.candidates[k].name = STR(<<"P","r","o","c","e","s","s","i","n","g"," ","E","r","r","o","r">>)

\* C8: the email of the record validateCandidate returns is lowercase and
\* matches the address syntax, also when it is the fallback made from the
\* name or from a generated token.
C8_EmailLowercaseAndWellFormed ==
    probe.stage = "normalized" =>
        /\ probe.out.email.v = toLowerCase(probe.out.email.v)
        /\ emailRegexTest(probe.out.email.v)

\* C9: the candidates list of a normal run holds the records of the
\* processed files, each once, by score descending, and records of equal
\* score are in the order in which their files were processed.
C9_SortedByScoreStable ==
    (NormalRunDone /\ Len(pdfFiles) >= 1) =>
        LET c == result.candidates
            at(k) == CHOOSE t \in 1..Len(trace) : trace[t].id = c[k].id.v
        IN  /\ Len(c) = Len(trace)
            /\ \A k \in 1..Len(c) : \E t \in 1..Len(trace) : trace[t].id = c[k].id.v
            /\ \A t \in 1..Len(trace) : \E k \in 1..Len(c) : trace[t].id = c[k].id.v
            /\ \A a, b \in 1..Len(c) :
                  a < b => \/ c[a].score.v > c[b].score.v
                           \/ c[a].score.v = c[b].score.v /\ at(a) < at(b)

\* a run has returned three records or more: the file processed last has
\* the highest score and comes first, and the two records after it have
\* equal scores
C9_LastFirstAndTie ==
    /\ NormalRunDone
    /\ Len(trace) >= 3
    /\ Len(result.candidates) = Len(trace)
    /\ result.candidates[1].id.v = trace[Len(trace)].id
    /\ result.candidates[1].score.v > result.candidates[2].score.v
    /\ result.candidates[2].score = result.candidates[3].score

\* C10: when the API key is missing or the Firebase SDK is not initialised
\* at the start of a run, no extraction, evaluation or upload call is made
\* for any file, no file is taken up, and the run returns success false
\* with one failure record for each received file, in the order received.
C10_ConfigErrorShortCircuits ==
    (~apiKey \/ ~databaseReady \/ ~bucketReady) =>
        /\ pc \in {"start", "done"}
        /\ \A e \in 1..Len(log) : log[e].op \notin {"extract", "evaluate", "upload", "unlink"}
        /\ trace = <<>>
        /\ pc = "done" =>
              /\ result.success = FALSE
              /\ Len(result.candidates) = Len(files)
              /\ \A k \in 1..Len(files) :
                    LET r == result.candidates[k]
                    IN  /\ r.name = STR(IF ~apiKey THEN <<"A","P","I"," ","K","e","y"," ","M","i","s","s","i","n","g">>
                                        ELSE <<"S","e","r","v","i","c","e"," ","E","r","r","o","r">>)
                        /\ r.jobTitle = STR(<<"E","r","r","o","r">>)
                        /\ r.score = INT(0)
                        /\ r.resumeUrl = STR(<<"F","i","l","e"," ","r","e","c","e","i","v","e","d",":"," ">> \o files[k].originalname)
                /\ \A a, b \in 1..Len(files) :
                      a # b => result.candidates[a].id # result.candidates[b].id

\* a run without the API key, and one without the database, has returned
\* for two files or more
C10_AbortedRunOfSeveralFiles ==
    /\ pc = "done"
    /\ ~apiKey \/ ~databaseReady
    /\ Len(files) >= 2
    /\ Len(result.candidates) = Len(files)

\* C11: for every file of type application/pdf that enters processing, the
\* deletion of its temp file is attempted once, right after the save of its
\* record has settled and before the extraction of the next file or a
\* cooldown begins, whether the file succeeded or failed on any path.
C11_CleanupBeforeNextItem ==
    \A e \in 1..Len(log) :
        log[e].op = "extract" =>
            LET f == log[e].f
                later == {x \in (e + 1)..Len(log) : log[x].op \in {"extract", "delay"}}
                last == IF later = {} THEN Len(log) ELSE SetMin(later) - 1
                unlinks == {u \in e..last : log[u] = Call("unlink", f)}
            IN  (later # {} \/ pc \in {"done", "rejected"}) =>
                    /\ Cardinality(unlinks) = 1
                    /\ \A u \in unlinks :
                          /\ log[u - 1].op = "return"
                          /\ log[u - 1].of = "save"
                          /\ log[u - 1].f = f
                          /\ u + 1 = last
                          /\ log[last].op = "return" /\ log[last].of = "unlink"

\* a run of two batches has returned: a file of the first batch had too
\* little text and the evaluation of another failed, the two paths that
\* leave the try block early, and the temp file of each file of the batch
\* was taken up for deletion before the cooldown
C11_EveryPathCleansUp ==
    /\ NormalRunDone
    /\ \A s \in {"insufficient", "evaluateFailed"} :
          \E t \in 1..BatchSize : t <= Len(trace) /\ trace[t].stage = s
    /\ \E d \in 1..Len(log) :
          /\ log[d] = Call("delay", 0)
          /\ \A t \in 1..BatchSize :
                \E u \in 1..(d - 1) : log[u] = Call("unlink", trace[t].f)

\* C12: for n >= 1 items processInBatches runs ceil(n / batchSize) batches
\* in input order, each of batchSize items except possibly the last, and
\* exactly ceil(n / batchSize) - 1 cooldown waits, each between two
\* consecutive batches and none after the last; with 12 items and batch
\* size 5 these are batches of 5, 5 and 2 and two waits.
C12_BatchesAndCooldowns ==
    (probe.stage = "returned" /\ Len(probe.items) >= 1) =>
        LET n == Len(probe.items)
            b == probe.batchSize
            batches == (n + b - 1) \div b
            ev == probe.events
        IN  /\ Len(ev) = 2 * batches - 1
            /\ \A k \in 1..batches :
                  /\ ev[2 * k - 1].op = "batch"
                  /\ ev[2 * k - 1].items =
                        [q \in 1..(IF k * b <= n THEN b ELSE n - (k - 1) * b) |->
                            probe.items[(k - 1) * b + q]]
            /\ \A k \in 1..(batches - 1) : ev[2 * k] = [op |-> "delay"]
            /\ Cardinality({e \in 1..Len(ev) : ev[e].op = "delay"}) = batches - 1
            /\ probe.results = probe.items

\* processInBatches has returned for 12 items and batch size 5: batches of
\* 5, 5 and 2 items with a wait after the first and after the second
C12_TwelveItemsThreeBatches ==
    /\ probe.stage = "returned"
    /\ Len(probe.items) = 12
    /\ probe.batchSize = 5
    /\ probe.events = << [op |-> "batch", items |-> <<1, 2, 3, 4, 5>>],
                         [op |-> "delay"],
                         [op |-> "batch", items |-> <<6, 7, 8, 9, 10>>],
                         [op |-> "delay"],
                         [op |-> "batch", items |-> <<11, 12>>] >>

C14_UploadFailureKeepsRecord ==
    /\ [][(/\ pc = "upload"
            /\ Len(log') > Len(log)
            /\ log'[Len(log) + 1] = Ret("upload", cur, FALSE)) =>
            /\ pc' = "save"
            /\ log'[Len(log')] = Call("save", cur)
            /\ item'.saving.name = item.candidate.name
            /\ item'.saving.email = item.candidate.email
            /\ item'.saving.score = item.candidate.score
            /\ item'.saving.skills = item.candidate.skills
            /\ item'.saving.resumeUrl = STR(<<"U","p","l","o","a","d"," ","F","a","i","l","e","d">>)
            /\ Len(item'.saving.parsedText.v) > Len(item.candidate.parsedText.v)
            /\ substring0(item'.saving.parsedText.v, Len(item.candidate.parsedText.v))
                  = item.candidate.parsedText.v
            /\ includes(item'.saving.parsedText.v, UploadErrorMessage)]_vars
    /\ [][(pc = "save" /\ item.stage = "uploadFailed" /\ Len(log') > Len(log)) =>
            /\ batchResults' = Append(batchResults, item.saving)
            /\ db' # db => dataToSave(item.saving) \in db']_vars
    /\ [](\A t \in 1..Len(trace) :
             trace[t].stage = "uploadFailed" =>
                 LET r == (results \o batchResults)[t]
                 IN  /\ r.id.v = trace[t].id
                     /\ r.resumeUrl = STR(<<"U","p","l","o","a","d"," ","F","a","i","l","e","d">>)
                     /\ \E s \in 1..Len(log) : log[s] = Call("save", trace[t].f)
                     /\ pc = "done" =>
                           \E k \in 1..Len(result.candidates) : result.candidates[k] = r)

\* a run has returned a record with a score above 0 and the resumeUrl
\* 'Upload Failed', and the store holds the record
C14_UploadFailedRecordReturned ==
    /\ NormalRunDone
    /\ \E t \in 1..Len(trace) : trace[t].stage = "uploadFailed"
    /\ \E k \in 1..Len(result.candidates) :
          /\ result.candidates[k].resumeUrl = STR(<<"U","p","l","o","a","d"," ","F","a","i","l","e","d">>)
          /\ result.candidates[k].score.v > 0
          /\ dataToSave(result.candidates[k]) \in db

\* C15: when the write of a record fails, the save swallows the error: the
\* save is called once for the file and no second time, the record is added
\* to the results as it was handed to the save, the run goes on to the
\* finally block and the next file, and the record is among those returned.
C15_SaveFailureSwallowed ==
    /\ [][(/\ pc = "save"
            /\ Len(log') > Len(log)
            /\ log'[Len(log) + 1] = Ret("save", cur, FALSE)) =>
            /\ pc' = "cleanup"
            /\ item'.thrown = FALSE
            /\ db' = db
            /\ batchResults' = Append(batchResults, item.saving)]_vars
    /\ [](\A f \in 1..Len(files) :
             Cardinality({s \in 1..Len(log) : log[s] = Call("save", f)}) <= 1)
    /\ []((pc = "done" /\ Len(pdfFiles) >= 1) =>
             /\ \A t \in 1..Len(trace) :
                   /\ results[t].id.v = trace[t].id
                   /\ \E k \in 1..Len(result.candidates) : result.candidates[k] = results[t]
             /\ \A e \in 1..Len(log) :
                   (log[e].op = "return" /\ log[e].of = "save" /\ ~log[e].ok) =>
                       /\ \E t \in 1..Len(trace) : trace[t].f = log[e].f
                       /\ \A k \in (log[e].f + 1)..Len(files) :
                             (files[k].mimetype = PdfType /\ validEntry(files[k]))
                                 => \E t \in 1..Len(trace) : trace[t].f = k)

\* a run has returned: the write of the record of one file failed, the
\* record is returned and is not in the store, and a file after it was
\* processed and its record written
C15_UnsavedRecordReturned ==
    /\ NormalRunDone
    /\ \E a, b \in 1..Len(trace) :
          /\ a < b
          /\ \E e \in 1..Len(log) : log[e] = Ret("save", trace[a].f, FALSE)
          /\ \A d \in db : d.id.v # trace[a].id
          /\ \E k \in 1..Len(result.candidates) : result.candidates[k].id.v = trace[a].id
          /\ \E d \in db : d.id.v = trace[b].id

\* C16 as stated: for every received file whose declared type is not
\* application/pdf no extraction, evaluation or upload call is ever made,
\* exactly one 'Invalid File Type' record of score 0 is handed to the save,
\* and the file is counted in invalidFilesSkipped.
C16_InvalidTypeRecord ==
    /\ [][(pc = "start" /\ pc' # "start") =>
            LET invalid == {r \in bg' : r.name = STR(<<"I","n","v","a","l","i","d"," ","F","i","l","e"," ","T","y","p","e">>)}
            IN  /\ Cardinality(invalid) = Len(nonPdfFiles)
                /\ \A r \in invalid : r.score = INT(0)
                /\ \A k \in 1..Len(files) :
                      files[k].mimetype # PdfType =>
                          /\ Cardinality({s \in 1..Len(log') : log'[s] = Call("save", k)}) = 1
                          /\ \E r \in invalid :
                                r.resumeUrl = STR(<<"F","i","l","e"," ","r","e","c","e","i","v","e","d",":"," ">> \o files[k].originalname)]_vars
    /\ [](\A e \in 1..Len(log) :
             (log[e].op \in {"extract", "evaluate", "upload"}
              \/ (log[e].op = "return" /\ log[e].of \in {"extract", "evaluate", "upload"}))
                 => files[log[e].f].mimetype = PdfType)
    /\ []((pc = "done" /\ Len(nonPdfFiles) >= 1) =>
             /\ "invalidFilesSkipped" \in DOMAIN result
             /\ result.invalidFilesSkipped = Len(nonPdfFiles))

\* C16, amended: in a run without a configuration error, for every received
\* file whose declared type is not application/pdf no extraction, evaluation
\* or upload call is ever made, exactly one 'Invalid File Type' record of
\* score 0 is handed to the save, and the file is counted in
\* invalidFilesSkipped; no such call is made for it in any run.
C16_InvalidTypeRecordOfNormalRun ==
    /\ [][(pc = "start" /\ pc' # "start" /\ apiKey /\ databaseReady /\ bucketReady) =>
            LET invalid == {r \in bg' : r.name = STR(<<"I","n","v","a","l","i","d"," ","F","i","l","e"," ","T","y","p","e">>)}
            IN  /\ Cardinality(invalid) = Len(nonPdfFiles)
                /\ \A r \in invalid : r.score = INT(0)
                /\ \A k \in 1..Len(files) :
                      files[k].mimetype # PdfType =>
                          /\ Cardinality({s \in 1..Len(log') : log'[s] = Call("save", k)}) = 1
                          /\ \E r \in invalid :
                                r.resumeUrl = STR(<<"F","i","l","e"," ","r","e","c","e","i","v","e","d",":"," ">> \o files[k].originalname)]_vars
    /\ [](\A e \in 1..Len(log) :
             (log[e].op \in {"extract", "evaluate", "upload"}
              \/ (log[e].op = "return" /\ log[e].of \in {"extract", "evaluate", "upload"}))
                 => files[log[e].f].mimetype = PdfType)
    /\ []((pc = "done" /\ apiKey /\ databaseReady /\ bucketReady /\ Len(nonPdfFiles) >= 1) =>
             /\ "invalidFilesSkipped" \in DOMAIN result
             /\ result.invalidFilesSkipped = Len(nonPdfFiles))

\* a run without a configuration error has returned for files of both
\* kinds: the skipped ones are counted, the store holds an 'Invalid File
\* Type' record, and the files of type application/pdf were processed
C16_MixedRunReturned ==
    /\ NormalRunDone
    /\ Len(pdfFiles) >= 1
    /\ Len(trace) >= 1
    /\ Len(nonPdfFiles) >= 2
    /\ result.invalidFilesSkipped = Len(nonPdfFiles)
    /\ \E d \in db : d.name = STR(<<"I","n","v","a","l","i","d"," ","F","i","l","e"," ","T","y","p","e">>) /\ d.score = INT(0)

\* C17: for each file the stages are called in order and each is awaited:
\* the evaluation is called right after the extraction has returned a text,
\* the upload right after the evaluation has returned, the save right after
\* the upload has settled or, when the upload is skipped, after the stage
\* that failed has settled; each stage is called at most once, and no stage
\* of a file is called while another call for the file has not settled.
C17_StagesInOrderAndAwaited ==
    \A e \in 1..Len(log) :
        (/\ log[e].op \in {"extract", "evaluate", "upload", "save", "unlink"}
         /\ \E x \in 1..e : log[x] = Call("extract", log[e].f)) =>
            LET f == log[e].f
                before == {c \in 1..(e - 1) : log[c].f = f /\ log[c].op # "return"}
                settled(c) == \E r \in (c + 1)..(e - 1) :
                                  /\ log[r].op = "return"
                                  /\ log[r].of = log[c].op
                                  /\ log[r].f = f
                uploadCalled == \E c \in before : log[c].op = "upload"
                prev == log[e - 1]
            IN  /\ \A c \in before : log[c].op # log[e].op /\ settled(c)
                /\ log[e].op = "extract" => before = {}
                /\ log[e].op # "extract" => prev.op = "return" /\ prev.f = f
                /\ log[e].op = "evaluate" => prev = Ret("extract", f, TRUE)
                /\ log[e].op = "upload" => prev = Ret("evaluate", f, TRUE)
                /\ log[e].op = "save" =>
                      /\ prev.of \in {"extract", "evaluate", "upload"}
                      /\ uploadCalled => prev.of = "upload"
                /\ log[e].op = "unlink" => prev.of = "save"

\* the save of a file is in flight after its extraction, its evaluation and
\* its upload were called and settled in this order, and the file before it
\* was saved without an upload
C17_FourStagesOfOneFile ==
    /\ pc = "save"
    /\ Len(trace) >= 1
    /\ trace[Len(trace)].stage = "evaluateFailed"
    /\ Len(log) >= 7
    /\ LET n == Len(log)
       IN  /\ log[n] = Call("save", cur)
           /\ log[n - 1] = Ret("upload", cur, TRUE)
           /\ log[n - 2] = Call("upload", cur)
           /\ log[n - 3] = Ret("evaluate", cur, TRUE)
           /\ log[n - 4] = Call("evaluate", cur)
           /\ log[n - 5] = Ret("extract", cur, TRUE)
           /\ log[n - 6] = Call("extract", cur)

\* C18: the files of type application/pdf are taken up one at a time in the
\* order received: when the extraction of a file is called, every file
\* taken up before it came earlier in the input and its save and the
\* deletion of its temp file have settled, as has every cooldown; at no time
\* have two such files a call that has not settled.
C18_OneItemAtATime ==
    LET awaited == {"extract", "evaluate", "upload", "save", "unlink"}
        entered(f, e) == \E x \in 1..e : log[x] = Call("extract", f)
        settledBy(c, e) == \E r \in (c + 1)..e :
                              /\ log[r].op = "return"
                              /\ log[r].of = log[c].op
                              /\ log[r].f = log[c].f
        open == {c \in 1..Len(log) :
                    /\ log[c].op \in awaited
                    /\ entered(log[c].f, c)
                    /\ ~settledBy(c, Len(log))}
    IN  /\ Cardinality({log[c].f : c \in open}) <= 1
        /\ \A e \in 1..Len(log) :
              log[e].op = "extract" =>
                  \A c \in 1..(e - 1) :
                      /\ log[c].op = "delay" => settledBy(c, e - 1)
                      /\ (log[c].op \in awaited /\ entered(log[c].f, c)) =>
                            /\ log[c].f < log[e].f
                            /\ settledBy(c, e - 1)
                      /\ log[c].op = "extract" =>
                            \E s, u \in (c + 1)..(e - 1) :
                                /\ s < u
                                /\ log[s].op = "return" /\ log[s].of = "save"
                                /\ log[s].f = log[c].f
                                /\ log[u].op = "return" /\ log[u].of = "unlink"
                                /\ log[u].f = log[c].f

\* the extraction of the first file of the second batch has been called:
\* the five files before it have their records, and the last entries of the
\* log before the call are the settled deletion of the fifth temp file and
\* the cooldown
C18_SixthAfterFive ==
    /\ pc = "extract"
    /\ Len(trace) = BatchSize
    /\ Len(log) >= 4
    /\ log[Len(log)] = Call("extract", cur)
    /\ log[Len(log) - 1] = Ret("delay", 0, TRUE)
    /\ log[Len(log) - 2] = Call("delay", 0)
    /\ log[Len(log) - 3].op = "return"
    /\ log[Len(log) - 3].of = "unlink"
    /\ log[Len(log) - 3].f = trace[BatchSize].f
    /\ trace[BatchSize].f < cur

C20_InsufficientExactlyBelowFifty ==
    /\ (/\ pc \in {"evaluate", "upload", "save", "cleanup"}
        /\ \E x \in 1..Len(log) : log[x] = Ret("extract", cur, TRUE)) =>
            LET short == Len(trim(item.text)) < 50
                called(op) == \E x \in 1..Len(log) : log[x] = Call(op, cur)
            IN  /\ short <=> ~called("evaluate")
                /\ short <=> item.stage = "insufficient"
                /\ short =>
                      /\ ~called("upload")
                      /\ called("save")
                      /\ item.saving.name = STR(<<"I","n","s","u","f","f","i","c","i","e","n","t"," ","T","e","x","t">>)
                      /\ item.saving.score = INT(0)
    /\ \A t \in 1..Len(trace) :
          trace[t].stage = "insufficient" =>
              LET r == (results \o batchResults)[t]
              IN  /\ r.id.v = trace[t].id
                  /\ r.name = STR(<<"I","n","s","u","f","f","i","c","i","e","n","t"," ","T","e","x","t">>)
                  /\ r.score = INT(0)
                  /\ \A x \in 1..Len(log) :
                        log[x].f = trace[t].f => log[x].op \notin {"evaluate", "upload"}

\* the evaluation of a file whose trimmed text has exactly 50 characters is
\* in flight, and the file before it, with 49 characters, has its
\* 'Insufficient Text' record
C20_FiftyEvaluatedFortyNineNot ==
    /\ pc = "evaluate"
    /\ Len(trim(item.text)) = 50
    /\ log[Len(log)] = Call("evaluate", cur)
    /\ Len(trace) >= 1
    /\ trace[Len(trace)].stage = "insufficient"
    /\ batchResults[Len(trace)].name = STR(<<"I","n","s","u","f","f","i","c","i","e","n","t"," ","T","e","x","t">>)


\* C21: when the evaluator's reply is a fenced block (an opening ```json or
\* ``` fence, a JSON object, a closing fence) followed by trailing prose,
\* cleanGeminiJson returns exactly the text of the object, from its opening
\* brace to its closing brace, and parseWithGemini returns the payload of a
\* successful evaluation built from that object.
C21_FencedObjectIsolated ==
    (probe.stage = "settled" /\ apiKey /\ probe.outcome.k = "text") =>
        \A d \in 1..Len(JsonDocs) : \A fence \in {<<BackTick,BackTick,BackTick,"j","s","o","n">>, <<BackTick,BackTick,BackTick>>} :
            LET object == JsonDocs[d].text
                block == fence \o <<"\n">> \o object \o <<"\n",BackTick,BackTick,BackTick>>
            IN  (/\ object[1] = "{"
                 /\ startsWith(probe.outcome.s, block)
                 /\ Len(probe.outcome.s) > Len(block)) =>
                    /\ cleanGeminiJson(probe.outcome.s) = object
                    /\ probe.r.kind = "return"
                    /\ probe.r.payload
                         = successPayload(JsonDocs[d].value,
                                          extractEmailFromText(probe.text))

\* C22: when the reply of the evaluator, its fence stripped, is non-empty
\* and has no '{' with a '}' somewhere after it, cleanGeminiJson returns the
\* fence-stripped text unchanged and the parsing of it fails:
\* parseWithGemini returns the 'JSON Parse Failed' payload with score 0,
\* whose name is one of those that keep the file from the upload.
C22_NoObjectIsParseFailure ==
    (probe.stage = "settled" /\ apiKey /\ probe.outcome.k = "text") =>
        LET cleaned == trim(probe.outcome.s)
            stripped == IF startsWith(cleaned, <<BackTick,BackTick,BackTick,"j","s","o","n">>)
                        THEN stripFence(cleaned, <<BackTick,BackTick,BackTick,"j","s","o","n">>)
                        ELSE IF startsWith(cleaned, <<BackTick,BackTick,BackTick>>)
                        THEN stripFence(cleaned, <<BackTick,BackTick,BackTick>>)
                        ELSE cleaned
        IN  (/\ stripped # <<>>
             /\ ~\E a, b \in 1..Len(stripped) :
                   a < b /\ stripped[a] = "{" /\ stripped[b] = "}") =>
                /\ cleanGeminiJson(probe.outcome.s) = stripped
                /\ probe.r.kind = "return"
                /\ probe.r.payload.name = STR(<<"J","S","O","N"," ","P","a","r","s","e"," ","F","a","i","l","e","d">>)
                /\ probe.r.payload.score = INT(0)
                /\ probe.r.payload.name.v \in geminiErrorNames

\* C23: when parseWithGemini returns the payload of a successful
\* evaluation, the email of the payload is the first address scanned from
\* the text of the resume whenever the text holds one, and the address the
\* evaluator reports (or 'N/A' when it reports none) only when the text
\* holds none.
C23_ScannedEmailFirst ==
    (probe.stage = "settled" /\ apiKey /\ probe.outcome.k = "text") =>
        LET parsed == JSONparse(cleanGeminiJson(probe.outcome.s))
            scanned == extractEmailFromText(probe.text)
        IN  (/\ trim(cleanGeminiJson(probe.outcome.s)) # <<>>
             /\ parsed.ok
             /\ parsed.value # NULL) =>
                /\ probe.r.kind = "return"
                /\ probe.r.payload.name = Or(Get(parsed.value, "name"), STR(<<"N","/","A">>))
                /\ IF scanned # NULL
                   THEN probe.r.payload.email = scanned
                   ELSE probe.r.payload.email
                            = Or(Get(parsed.value, "email"), STR(<<"N","/","A">>))

\* the text holds two addresses and the evaluator reports a third: the
\* payload has the first one of the text
C23_FirstOfTwoBeatsReply ==
    /\ probe.stage = "settled"
    /\ probe.text = <<"m","a","i","l"," ","b","o","@","x",".","i","o",","," ","o","r"," ","B","O","@","Y",".","O","R","G","."," ","T","h","a","n","k","s">>
    /\ probe.outcome = ReplyPlain
    /\ JSONparse(cleanGeminiJson(probe.outcome.s)).value.email = STR(<<"j","o","@","c","o","r","p",".","i","o">>)
    /\ probe.r.payload.email = STR(<<"b","o","@","x",".","i","o">>)

\* C24 as stated: for a file whose extraction gave at least 50 characters,
\* whose evaluator reply is a well-formed JSON object with a score s from 0
\* to 100 and whose upload succeeded, the record of the run has the score s,
\* the name, the skills and the experience years as the evaluator reported
\* them, and the URL the upload returned as resumeUrl.
C24_RecordAsReported ==
    \A t \in 1..Len(trace) :
        LET r == (results \o batchResults)[t]
            parsed == JSONparse(cleanGeminiJson(trace[t].reply.s))
            s == Get(parsed.value, "score")
        IN  (/\ trace[t].stage = "uploaded"
             /\ trace[t].reply.k = "text"
             /\ parsed.ok
             /\ "t" \notin DOMAIN parsed.value
             /\ IsNum(s) /\ 0 <= s.v /\ s.v <= 1000) =>
                /\ r.score = s
                /\ r.name = Get(parsed.value, "name")
                /\ r.skills = Get(parsed.value, "skills")
                /\ r.experience = Get(parsed.value, "experienceYears")
                /\ r.resumeUrl
                     = STR(uploadToFirebaseStorage(files[trace[t].f].path,
                                                   files[trace[t].f].originalname,
                                                   trace[t].id, TRUE, <<>>).payload)

\* C24: for a file whose extraction gave at least 50 characters, whose
\* evaluator reply is a well-formed JSON object with a score s from 0 to 100
\* and whose upload succeeded, the record of the run has the values of the
\* reply as validateCandidate normalizes them: the score s rounded to a
\* whole number, the name trimmed ('Unknown' for a missing, blank or 'n/a'
\* name), the skills that are non-blank strings, trimmed, the experience
\* years rounded (0 when missing or negative); its resumeUrl is the URL the
\* upload returned, and the returned result holds that record.
C24_RecordAsNormalized ==
    \A t \in 1..Len(trace) :
        LET r == (results \o batchResults)[t]
            parsed == JSONparse(cleanGeminiJson(trace[t].reply.s))
            s == Get(parsed.value, "score")
            years == Get(parsed.value, "experienceYears")
            name == Get(parsed.value, "name")
            listed == Get(parsed.value, "skills")
            strings == IF listed.t = "arr"
                       THEN SelectSeq(listed.v,
                                      LAMBDA x : x.t = "str" /\ trim(x.v) # <<>>)
                       ELSE <<>>
        IN  (/\ trace[t].stage = "uploaded"
             /\ trace[t].reply.k = "text"
             /\ parsed.ok
             /\ "t" \notin DOMAIN parsed.value
             /\ IsNum(s) /\ 0 <= s.v /\ s.v <= 1000) =>
                /\ \E x \in 1..Len(log) : log[x] = Ret("upload", trace[t].f, TRUE)
                /\ r.score = INT((s.v + 5) \div 10)
                /\ r.name = IF name.t = "str" /\ trim(name.v) # <<>>
                               /\ toLowerCase(trim(name.v)) # <<"n","/","a">>
                            THEN STR(trim(name.v))
                            ELSE STR(<<"U","n","k","n","o","w","n">>)
                /\ r.skills = ARR([k \in 1..Len(strings) |-> STR(trim(strings[k].v))])
                /\ r.experience = IF IsNum(years) /\ years.v >= 0
                                  THEN INT((years.v + 5) \div 10)
                                  ELSE INT(0)
                /\ r.resumeUrl
                     = STR(uploadToFirebaseStorage(files[trace[t].f].path,
                                                   files[trace[t].f].originalname,
                                                   trace[t].id, TRUE, <<>>).payload)
                /\ pc = "done" =>
                      \E k \in 1..Len(result.candidates) : result.candidates[k] = r

\* the run has returned the record of a file whose evaluator reported the
\* name " Bea ", the skills "c", " " and 4, 2.5 years and the score 30: it
\* has the name "Bea", the skill "c", 3 years and the score 30
C24_UntidyReplyNormalized ==
    /\ pc = "done"
    /\ \E t \in 1..Len(trace) : \E k \in 1..Len(result.candidates) :
          /\ trace[t].stage = "uploaded"
          /\ trace[t].reply = Reply(DocUntidy)
          /\ result.candidates[k].id.v = trace[t].id
          /\ result.candidates[k].name = STR(<<"B","e","a">>)
          /\ result.candidates[k].skills = ARR(<<STR(<<"c">>)>>)
          /\ result.candidates[k].experience = INT(3)
          /\ result.candidates[k].score = INT(30)
          /\ startsWith(result.candidates[k].resumeUrl.v, <<"h","t","t","p","s",":","/","/","s","t","o","r","a","g","e",".","g","o","o","g","l","e","a","p","i","s",".","c","o","m","/">>)

\* C25: when the primary extraction of a file fails, then in a run whose
\* enhanced flag is false no fallback extraction is attempted and the
\* failure goes straight to the record of the file, and in a run whose
\* enhanced flag is true a fallback extraction of the file is attempted
\* next.  processResumeFiles takes no such flag and a run does not depend
\* on one: what a run does it does for either value of the flag.
C25_FallbackWhenEnhanced ==
    \A enhanced \in BOOLEAN :
        \A x \in 1..(Len(log) - 1) :
            (log[x].op = "return" /\ log[x].of = "extract" /\ ~log[x].ok) =>
                IF enhanced
                THEN log[x + 1] = Call("extractFallback", log[x].f)
                ELSE log[x + 1] = Call("save", log[x].f)

\* C26: the result of every run has, besides the records and the counters,
\* a list of the display names of exactly those files whose extraction or
\* evaluation failed.  Stated for the runs in which a file failed: the list
\* of the other runs is the empty one.
C26_FailedNamesListed ==
    pc = "done" =>
        LET failed == {log[x].f : x \in {y \in 1..Len(log) :
                                            /\ log[y].op = "return"
                                            /\ log[y].of \in {"extract", "evaluate"}
                                            /\ ~log[y].ok}}
                      \cup {trace[t].f : t \in {u \in 1..Len(trace) :
                                     trace[u].stage \in {"insufficient", "evaluateFailed"}}}
        IN  failed # {} =>
                \E key \in DOMAIN result \ {"success", "totalProcessed",
                                            "validPdfProcessed", "invalidFilesSkipped",
                                            "candidates", "message"} :
                    Range(result[key]) = {files[f].originalname : f \in failed}

C28_UrlIffUploaded ==
    pc = "done" =>
        \A k \in 1..Len(result.candidates) :
            LET r == result.candidates[k]
                isUrl == startsWith(r.resumeUrl.v, <<"h","t","t","p","s",":","/","/">>)
                uploaded == {t \in 1..Len(trace) :
                                /\ trace[t].id = r.id.v
                                /\ \E x \in 1..Len(log) :
                                      log[x] = Ret("upload", trace[t].f, TRUE)}
            IN  /\ r.resumeUrl.t = "str"
                /\ isUrl <=> uploaded # {}
                /\ \A t \in uploaded :
                      r.resumeUrl.v
                        = uploadToFirebaseStorage(files[trace[t].f].path,
                                                  files[trace[t].f].originalname,
                                                  trace[t].id, TRUE, <<>>).payload
                /\ ~isUrl =>
                      \/ r.resumeUrl.v \in {<<"N","/","A">>, <<"U","p","l","o","a","d"," ","F","a","i","l","e","d">>, <<"P","r","o","c","e","s","s","i","n","g"," ","F","a","i","l","e","d">>}
                      \/ startsWith(r.resumeUrl.v, <<"F","i","l","e"," ","r","e","c","e","i","v","e","d",":"," ">>)

\* a returned result with a record of an uploaded file, a record of a file
\* whose upload failed and a record of a file that could not be read
C28_UrlAndTwoSentinels ==
    /\ pc = "done"
    /\ \E a, b, c \in 1..Len(result.candidates) :
          /\ startsWith(result.candidates[a].resumeUrl.v, <<"h","t","t","p","s",":","/","/","s","t","o","r","a","g","e",".","g","o","o","g","l","e","a","p","i","s",".","c","o","m","/">>)
          /\ result.candidates[b].resumeUrl = STR(<<"U","p","l","o","a","d"," ","F","a","i","l","e","d">>)
          /\ result.candidates[c].resumeUrl = STR(<<"P","r","o","c","e","s","s","i","n","g"," ","F","a","i","l","e","d">>)
    /\ \E x, y \in 1..Len(log) :
          log[x].op = "return" /\ log[x].of = "upload" /\ log[x].ok
          /\ log[y].op = "return" /\ log[y].of = "upload" /\ ~log[y].ok

C31_PrefixWithinBudget ==
    probe.stage = "sent" =>
        LET estimated == (3191 + 2 * probe.jdLength + 2 * probe.rsLength
                          + probe.textLength + 3) \div 4
            budget == (1000000 - estimated - 5000) * 3
        IN  /\ probe.sentIsStart
            /\ probe.sentLength = IF probe.textLength <= budget
                                  THEN probe.textLength
                                  ELSE budget
            /\ probe.sentLength <= budget

\* C31: the text sent to the evaluator is a prefix of the extracted text:
\* the whole text when its length is within the budget, otherwise its first
\* budget-many characters, and the empty text when the budget is below
\* zero; where the budget is not below zero the text sent is never longer
\* than it.
C31_PrefixWithinBudgetOrEmpty ==
    probe.stage = "sent" =>
        LET estimated == (3191 + 2 * probe.jdLength + 2 * probe.rsLength
                          + probe.textLength + 3) \div 4
            budget == (1000000 - estimated - 5000) * 3
        IN  /\ probe.sentIsStart
            /\ probe.MAX_TEXT_CHARS = budget
            /\ probe.sentLength = IF probe.textLength <= budget
                                  THEN probe.textLength
                                  ELSE IF budget < 0 THEN 0 ELSE budget
            /\ budget >= 0 => probe.sentLength <= budget

\* a text of 1,704,322 characters, one more than fits, has been cut to its
\* first 1,704,321
C31_CutByOne ==
    /\ probe.stage = "sent"
    /\ probe.jdLength = 14
    /\ probe.textLength = 1704322
    /\ probe.sentLength = 1704321
    /\ probe.sentIsStart

\* C32: two records of a run whose supplied emails both fail validation
\* never get the same fallback email from validateCandidate: the email a
\* record got in place of its failing one differs from the fallback of every
\* record without an email the run may validate next, whatever its name.
C32_FallbacksDiffer ==
    (/\ probe.stage = "normalized"
     /\ LET input == emailInput(probe.in)
        IN  ~(input # <<>> /\ emailRegexTest(input)))
    => \A n \in NameInputs :
           validateCandidate([name |-> n, email |-> UNDEF], nextUuid).email
           # probe.out.email

\* C33: when processResumeFiles has returned its result, the temp file of
\* every file entry it received has been deleted, or its deletion has been
\* attempted: files of another type, entries the batch skipped as invalid
\* and the files of a run with a configuration error included.
C33_EveryTempFileReleased ==
    pc = "done" =>
        \A f \in 1..Len(files) :
            \/ f \notin tmp
            \/ \E x \in 1..Len(log) : log[x] = Call("unlink", f)

\* C34: when processResumeFiles has returned its result, every save it
\* called has settled, those of the records of files of another type and of
\* a configuration error included; and no save nobody awaits is in flight
\* while a file of type application/pdf is being processed.
C34_NoSaveInFlight ==
    /\ pc = "done" => bg = {}
    /\ pc \in {"extract", "evaluate", "upload", "save", "cleanup"} => bg = {}

\* C35: the upload is called for every file whose evaluation succeeded:
\* whenever the evaluator replied with a well-formed JSON object, whatever
\* name it reports, the file is uploaded and its record is not that of an
\* evaluator failure.
C35_EvaluatedIsUploaded ==
    \A t \in 1..Len(trace) :
        (/\ trace[t].stage \in {"evaluateFailed", "uploaded", "uploadFailed"}
         /\ trace[t].reply.k = "text"
         /\ JSONparse(cleanGeminiJson(trace[t].reply.s)).ok
         /\ "t" \notin DOMAIN JSONparse(cleanGeminiJson(trace[t].reply.s)).value) =>
            /\ trace[t].stage # "evaluateFailed"
            /\ \E x \in 1..Len(log) : log[x] = Call("upload", trace[t].f)

\* C36: the runs of overlapping requests to /parse-resumes do not
\* interleave: no file of a later run is at its extraction or its evaluation
\* while a run whose request came before has not returned its result.
C36_OneRunAtATime ==
    probe.stage = "requests" =>
        \A a, b \in 1..Len(probe.order) :
            (a < b /\ probe.runs[probe.order[a]].pc # "done") =>
                probe.runs[probe.order[b]].pc \notin {"extract", "evaluate"}
====
